---- MODULE Spec2Model ----
(***************************************************************************)
(* Model of the scoring playground (src/src/scoring_playground): the game  *)
(* model (CTF, its memoized indices, slice), the flag-state estimator, the *)
(* Score algebra and the scoring formulas' evaluate.                       *)
(*                                                                         *)
(* Python values are modelled as follows.                                  *)
(*   - a dict is a TLA+ function whose DOMAIN is the dict's key set;       *)
(*   - a tuple/list is a sequence; Python's 0-based index i is position    *)
(*     i+1, and a negative index counts from the end as in Python;         *)
(*   - an operation that can raise returns a record with a field exc,      *)
(*     "none" when it completes and the exception's class name otherwise;  *)
(*     callers propagate the first exception in evaluation order;          *)
(*   - a float is an exact rational <<numerator, denominator>>.            *)
(***************************************************************************)
EXTENDS Integers, Sequences, FiniteSets, TLC

VARIABLES
    input,      \* the decoded input the CTF is constructed from
    phase,      \* "decoded" | "ready" | "failed"
    ctf,        \* the constructed CTF object (its dataclass fields)
    memo,       \* the CTF's __immutable_cache__: qualified name -> memoized value
    child,      \* the CTF returned by the last slice() and the arguments of the call
    cmemo,      \* the __immutable_cache__ of that CTF
    warnings,   \* number of warnings.warn calls so far
    raised,     \* class name of the exception the last operation raised, or "none"
    result      \* the last call of the Score algebra or of evaluate and what it returned

vars == <<input, phase, ctf, memo, child, cmemo, warnings, raised, result>>

----------------------------------------------------------------------------
(* Bounds of the model *)

MaxRounds == 4
MaxRetention == 3
MaxSliceRounds == 3
MaxScoreValue == 1
MaxScoreRounds == 2
MaxRankScore == 3
MaxEcscRounds == 3
\* ECSC2024(base=10.0), in hundredths
SmallBase == 1000

----------------------------------------------------------------------------
(* Generic helpers *)

Max(a, b) == IF a >= b THEN a ELSE b
Min(a, b) == IF a <= b THEN a ELSE b

Range(f) == {f[x] : x \in DOMAIN f}

\* dict.update: the entries of g override those of f
Overlay(f, g) ==
    [x \in (DOMAIN f) \cup (DOMAIN g) |-> IF x \in DOMAIN g THEN g[x] ELSE f[x]]

EmptyDict == [x \in {} |-> 0]

\* seq[i] for a Python index i (negative counts from the end) is defined iff
PyInRange(len, i) == (0 - len) <= i /\ i < len
\* and is then the element at this 1-based position
PyPos(len, i) == IF i >= 0 THEN i + 1 ELSE len + i + 1

\* K applied to the value of v, with v evaluated once
Then(v, K(_)) == CHOOSE r \in {K(x) : x \in {v}} : TRUE

\* 1-based position of x in the sequence s
IndexOf(s, x) == CHOOSE i \in 1..Len(s) : s[i] = x

----------------------------------------------------------------------------
(* The game model: enums and the shape of the decoded input *)

ServiceState == {"OK", "RECOVERING", "MUMBLE", "OFFLINE", "ERROR"}
FlagState == {"OK", "MISSING"}

\* msgspec.UNSET for the integer field Config.flag_retention
UNSET == 0

\* ctf.services: one service with one flagstore
ServiceOrder == <<"web">>
FlagstoresOf == [web |-> <<0>>]

\* The FlagId the checker assigned to the flag placed in round r (0-based) for
\* team number ti (1-based) of nt teams: a dense, unique numbering
FlagIdOf(r, ti, nt) == r * nt + (ti - 1)

\* TeamRoundData of one team: stored is "flag" (a flag in flagstore 0),
\* "empty" (the service key maps to an empty mapping) or "nokey" (no entry
\* for the service in flags_stored)
TeamRound(state, stored, flagId, captured) ==
    [service_states |-> [s \in {"web"} |-> state],
     flags_stored   |-> IF stored = "nokey" THEN EmptyDict
                        ELSE [s \in {"web"} |->
                                 IF stored = "flag" THEN [f \in {0} |-> flagId]
                                 ELSE EmptyDict],
     flags_captured |-> captured]

----------------------------------------------------------------------------
(* Config: flag_retention defaults to flag_validity *)

ConfigDefaults(config) ==
    [flag_validity  |-> config.flag_validity,
     flag_retention |-> IF config.flag_retention = UNSET
                        THEN config.flag_validity
                        ELSE config.flag_retention]

----------------------------------------------------------------------------
(* The flag-state estimator, CTF._estimate_flag_states *)

NoExc == "none"

\* set(self.rounds[placement][team].flags_stored[service].values())
StoredAt(rounds, placement, team, service) ==
    IF ~PyInRange(Len(rounds), placement)
    THEN [exc |-> "IndexError", flags |-> {}]
    ELSE IF team \notin DOMAIN rounds[PyPos(Len(rounds), placement)]
    THEN [exc |-> "KeyError", flags |-> {}]
    ELSE LET stored == rounds[PyPos(Len(rounds), placement)][team].flags_stored
         IN  IF service \notin DOMAIN stored
             THEN [exc |-> "KeyError", flags |-> {}]
             ELSE [exc |-> NoExc, flags |-> Range(stored[service])]

\* set.union(*[StoredAt(placement) for placement in range(lo, hi)]); the list
\* comprehension evaluates the placements in ascending order
RECURSIVE StoredUnion(_, _, _, _, _)
StoredUnion(rounds, lo, hi, team, service) ==
    IF lo >= hi THEN [exc |-> NoExc, flags |-> {}]
    ELSE LET head == StoredAt(rounds, lo, team, service)
         IN  IF head.exc # NoExc THEN head
             ELSE LET rest == StoredUnion(rounds, lo + 1, hi, team, service)
                  IN  IF rest.exc # NoExc THEN rest
                      ELSE [exc |-> NoExc, flags |-> head.flags \cup rest.flags]

\* checked_flags of round round_id
CheckedFlags(rounds, retention, round_id, team, service) ==
    StoredUnion(rounds, round_id - retention + 1, round_id + 1, team, service)

\* The loop over future_round in range(future, stop), started with `present`
RECURSIVE ScanFuture(_, _, _, _, _, _)
ScanFuture(rounds, team, service, future, stop, present) ==
    IF future >= stop THEN present
    ELSE IF future >= Len(rounds) THEN present
    ELSE IF rounds[future + 1][team].service_states[service] = "OK" THEN present
    ELSE ScanFuture(rounds, team, service, future + 1, stop, present - 1)

\* Mutant of RecoveringPresent: the scan of the future rounds starts at the
\* current round instead of the next one
RecoveringPresent_ScanFromCurrent(rounds, retention, round_id, team, service) ==
    Max(Min(retention - 1,
            ScanFuture(rounds, team, service, round_id,
                       round_id + retention, retention - 1)),
        1)

\* `present` of the RECOVERING case, after both clamps
RecoveringPresent(rounds, retention, round_id, team, service) ==
    Max(Min(retention - 1,
            ScanFuture(rounds, team, service, round_id + 1,
                       round_id + retention, retention - 1)),
        1)

\* Mutant of EstimateCell: ERROR is handled like OFFLINE and MUMBLE
EstimateCell_ErrorMissing(rounds, retention, round_id, team, service) ==
    LET state   == rounds[round_id + 1][team].service_states[service]
        checked == CheckedFlags(rounds, retention, round_id, team, service)
    IN  IF checked.exc # NoExc THEN [exc |-> checked.exc, states |-> EmptyDict]
        ELSE IF state = "OK"
        THEN [exc |-> NoExc, states |-> [f \in checked.flags |-> "OK"]]
        ELSE IF state = "RECOVERING"
        THEN LET present == RecoveringPresent(rounds, retention, round_id, team, service)
                 kept    == StoredUnion(rounds, round_id - present + 1, round_id + 1,
                                        team, service)
             IN  IF kept.exc # NoExc THEN [exc |-> kept.exc, states |-> EmptyDict]
                 ELSE [exc |-> NoExc,
                       states |-> [f \in checked.flags |->
                                      IF f \in kept.flags THEN "OK" ELSE "MISSING"]]
        ELSE [exc |-> NoExc, states |-> [f \in checked.flags |-> "MISSING"]]

\* The entries one (team, service) adds to round_result
EstimateCell(rounds, retention, round_id, team, service) ==
    LET state   == rounds[round_id + 1][team].service_states[service]
        checked == CheckedFlags(rounds, retention, round_id, team, service)
    IN  IF checked.exc # NoExc THEN [exc |-> checked.exc, states |-> EmptyDict]
        ELSE IF state \in {"OK", "ERROR"}
        THEN [exc |-> NoExc, states |-> [f \in checked.flags |-> "OK"]]
        ELSE IF state = "RECOVERING"
        THEN LET present == RecoveringPresent(rounds, retention, round_id, team, service)
                 kept    == StoredUnion(rounds, round_id - present + 1, round_id + 1,
                                        team, service)
             IN  IF kept.exc # NoExc THEN [exc |-> kept.exc, states |-> EmptyDict]
                 ELSE [exc |-> NoExc,
                       states |-> [f \in checked.flags |->
                                      IF f \in kept.flags THEN "OK" ELSE "MISSING"]]
        ELSE [exc |-> NoExc, states |-> [f \in checked.flags |-> "MISSING"]]

\* round_result: the cells of the round in iteration order (the teams the
\* round lists, then the services of each team); k is the number of cells
\* still to process
RECURSIVE EstimateRound(_, _, _, _, _, _)
EstimateRound(rounds, teams, retention, round_id, k, acc) ==
    IF k = 0 THEN [exc |-> NoExc, states |-> acc]
    ELSE LET done    == Len(teams) * Len(ServiceOrder) - k
             team    == teams[(done \div Len(ServiceOrder)) + 1]
             service == ServiceOrder[(done % Len(ServiceOrder)) + 1]
         IN  IF team \notin DOMAIN rounds[round_id + 1]
             THEN EstimateRound(rounds, teams, retention, round_id, k - 1, acc)
             ELSE LET cell == EstimateCell(rounds, retention, round_id, team, service)
                  IN  IF cell.exc # NoExc THEN cell
                      ELSE EstimateRound(rounds, teams, retention, round_id, k - 1,
                                         Overlay(acc, cell.states))

\* per_round, from round round_id on
RECURSIVE EstimateFrom(_, _, _, _)
EstimateFrom(rounds, teams, retention, round_id) ==
    IF round_id >= Len(rounds) THEN [exc |-> NoExc, per_round |-> <<>>]
    ELSE LET this == EstimateRound(rounds, teams, retention, round_id,
                                   Len(teams) * Len(ServiceOrder), EmptyDict)
         IN  IF this.exc # NoExc THEN [exc |-> this.exc, per_round |-> <<>>]
             ELSE LET rest == EstimateFrom(rounds, teams, retention, round_id + 1)
                  IN  IF rest.exc # NoExc THEN rest
                      ELSE [exc |-> NoExc,
                            per_round |-> <<this.states>> \o rest.per_round]

EstimateFlagStates(rounds, teams, retention) ==
    EstimateFrom(rounds, teams, retention, 0)

----------------------------------------------------------------------------
(* Construction: CTF.__init__ followed by the __post_init__ that @defaults  *)
(* installs, which fills flag_states by calling the estimator              *)

NoCTF == [teams |-> <<>>, rounds |-> <<>>, config |-> [flag_validity |-> 0, flag_retention |-> 0],
          flag_states |-> <<>>]

NoChild == [exists |-> FALSE, obj |-> NoCTF, args |-> <<<<>>, <<>>>>]

\* No call made yet. call.op names the operation, call.on its target
\* ("ctf", "slice" or "operands"), call.args the slice() arguments of the
\* target, call.nop_team the formula's nop_team (<<>> is None) and
\* call.params the formula's other constructor arguments
NoResult == [call |-> [op |-> "none", on |-> "none", args |-> <<<<>>, <<>>>>, nop_team |-> <<>>,
                       params |-> <<>>],
             returned |-> FALSE, value |-> EmptyDict]

\* The state right after decoding, before the CTF object is constructed
Fresh ==
    /\ phase = "decoded"
    /\ ctf = NoCTF
    /\ memo = EmptyDict
    /\ child = NoChild
    /\ cmemo = EmptyDict
    /\ warnings = 0
    /\ raised = NoExc
    /\ result = NoResult

\* A variant whose estimation emits no warning
Construct_SilentEstimate ==
    /\ phase = "decoded"
    /\ LET config == ConfigDefaults(input.config)
           est    == EstimateFlagStates(input.rounds, input.teams, config.flag_retention)
       IN  /\ warnings' = warnings
           /\ raised' = est.exc
           /\ IF est.exc # NoExc
              THEN /\ phase' = "failed"
                   /\ ctf' = NoCTF
              ELSE /\ phase' = "ready"
                   /\ ctf' = [teams |-> input.teams, rounds |-> input.rounds,
                              config |-> config, flag_states |-> est.per_round]
    /\ UNCHANGED <<input, memo, child, cmemo, result>>

\* CTF(...): the __post_init__ installed by @defaults (util.py 27-35) runs at
\* the end of the generated __init__. It calls _estimate_flag_states, which
\* warns first (model.py 228-230), when the flag_states passed to the
\* constructor is UNSET, i.e. when the input has no flag_states
Construct ==
    /\ phase = "decoded"
    /\ LET config == ConfigDefaults(input.config)
           est    == EstimateFlagStates(input.rounds, input.teams, config.flag_retention)
       IN  IF "flag_states" \in DOMAIN input
           THEN /\ warnings' = warnings
                /\ raised' = NoExc
                /\ phase' = "ready"
                /\ ctf' = [teams |-> input.teams, rounds |-> input.rounds,
                           config |-> config, flag_states |-> input.flag_states]
           ELSE /\ warnings' = warnings + 1
                /\ raised' = est.exc
                /\ IF est.exc # NoExc
                   THEN /\ phase' = "failed"
                        /\ ctf' = NoCTF
                   ELSE /\ phase' = "ready"
                        /\ ctf' = [teams |-> input.teams, rounds |-> input.rounds,
                                   config |-> config, flag_states |-> est.per_round]
    /\ UNCHANGED <<input, memo, child, cmemo, result>>

----------------------------------------------------------------------------
(* The memoized derived indices of a CTF *)

\* CTF.flagstores
Flagstores(c) ==
    LET PairsOf(service) ==
            [i \in 1..Len(FlagstoresOf[service]) |-> <<service, FlagstoresOf[service][i]>>]
        F[k \in 0..Len(ServiceOrder)] ==
            IF k = 0 THEN <<>> ELSE F[k - 1] \o PairsOf(ServiceOrder[k])
    IN  F[Len(ServiceOrder)]

\* The items one TeamRoundData adds to the dict comprehension of CTF.flags
FlagsOfTeamRound(round_id, team, team_data) ==
    LET stored == team_data.flags_stored
        ids    == UNION {Range(stored[s]) : s \in DOMAIN stored}
    IN  [id \in ids |->
            LET s == CHOOSE s \in DOMAIN stored : id \in Range(stored[s])
                f == CHOOSE f \in DOMAIN stored[s] : stored[s][f] = id
            IN  [flag_id |-> id, round_id |-> round_id, owner |-> team,
                 service |-> s, flagstore |-> f]]

\* CTF.flags: the comprehension visits the rounds in order and the teams a
\* round lists in order; a later item replaces an earlier one with the same
\* key
Flags(c) ==
    LET nt == Len(c.teams)
        F[k \in 0..(Len(c.rounds) * nt)] ==
            IF k = 0 THEN EmptyDict
            ELSE LET round_id == (k - 1) \div nt
                     team     == c.teams[((k - 1) % nt) + 1]
                 IN  IF team \notin DOMAIN c.rounds[round_id + 1] THEN F[k - 1]
                     ELSE Overlay(F[k - 1],
                                  FlagsOfTeamRound(round_id, team,
                                                   c.rounds[round_id + 1][team]))
    IN  F[Len(c.rounds) * nt]

\* FlagCaptures(): count = 0 and by = defaultdict(list)
NewFlagCaptures == [count |-> 0, by |-> EmptyDict]

\* captures[flag_id].count += 1; captures[flag_id].by[round_id].append(team)
CaptureAdd(captures, flag_id, round_id, team) ==
    LET old  == IF flag_id \in DOMAIN captures THEN captures[flag_id] ELSE NewFlagCaptures
        list == IF round_id \in DOMAIN old.by THEN old.by[round_id] ELSE <<>>
    IN  Overlay(captures,
                [x \in {flag_id} |->
                    [count |-> old.count + 1,
                     by    |-> Overlay(old.by, [y \in {round_id} |-> Append(list, team)])]])

\* The loop over team_data.flags_captured
RECURSIVE CaptureAll(_, _, _, _)
CaptureAll(captures, flag_ids, round_id, team) ==
    IF flag_ids = <<>> THEN captures
    ELSE CaptureAll(CaptureAdd(captures, Head(flag_ids), round_id, team),
                    Tail(flag_ids), round_id, team)

\* CTF.flag_captures
FlagCaptures(c) ==
    LET nt == Len(c.teams)
        F[k \in 0..(Len(c.rounds) * nt)] ==
            IF k = 0 THEN EmptyDict
            ELSE LET round_id == (k - 1) \div nt
                     team     == c.teams[((k - 1) % nt) + 1]
                 IN  IF team \notin DOMAIN c.rounds[round_id + 1] THEN F[k - 1]
                     ELSE CaptureAll(F[k - 1],
                                     c.rounds[round_id + 1][team].flags_captured,
                                     round_id, team)
    IN  F[Len(c.rounds) * nt]

IndexNames == {"CTF.flagstores", "CTF.flags", "CTF.flag_captures"}

\* The property function behind a memoized name
ComputeIndex(name, c) ==
    CASE name = "CTF.flagstores"    -> Flagstores(c)
      [] name = "CTF.flags"         -> Flags(c)
      [] name = "CTF.flag_captures" -> FlagCaptures(c)

\* ImmutableCache.__call__.caching_wrapper: the cache after a read of `name`
CachingWrapper(cache, name, c) ==
    IF name \in DOMAIN cache THEN cache
    ELSE Overlay(cache, [n \in {name} |-> ComputeIndex(name, c)])

ReadParent(name) ==
    /\ phase = "ready"
    /\ memo' = CachingWrapper(memo, name, ctf)
    /\ raised' = NoExc
    /\ UNCHANGED <<input, phase, ctf, child, cmemo, warnings, result>>

ReadChild(name) ==
    /\ child.exists
    /\ cmemo' = CachingWrapper(cmemo, name, child.obj)
    /\ raised' = NoExc
    /\ UNCHANGED <<input, phase, ctf, memo, child, warnings, result>>

----------------------------------------------------------------------------
(* CTF.slice *)

\* An optional int argument: <<>> is None, <<k>> is k
OptOr(arg, default) == IF arg = <<>> THEN default ELSE arg[1]

\* seq[lo:hi] for ints lo, hi
PySlice(seq, lo, hi) ==
    LET n    == Len(seq)
        C(i) == IF i < 0 THEN Max(i + n, 0) ELSE Min(i, n)
    IN  SubSeq(seq, C(lo) + 1, C(hi))

\* Mutant of SlicedCache: the new object shares the parent's cache
SlicedCache_Shared(parent_cache) == parent_cache

\* The __immutable_cache__ of the object dataclasses.replace returns, after
\* immutable_cache.reset: replace() builds the object through __init__ from
\* the dataclass fields only, so the attribute is absent
SlicedCache(parent_cache) == EmptyDict

\* The fields of the sliced CTF; flag_states is never UNSET on a constructed
\* CTF, so it is sliced and the @defaults hook does not estimate again
SliceFields(c, from_round, to_round) ==
    LET lo == OptOr(from_round, 0)
        hi == OptOr(to_round, Len(c.rounds))
    IN  [c EXCEPT !.rounds = PySlice(c.rounds, lo, hi),
                  !.flag_states = PySlice(c.flag_states, lo, hi)]

Slice(from_round, to_round) ==
    /\ phase = "ready"
    /\ child' = [exists |-> TRUE, obj |-> SliceFields(ctf, from_round, to_round),
                 args |-> <<from_round, to_round>>]
    /\ cmemo' = SlicedCache(memo)
    /\ raised' = NoExc
    /\ UNCHANGED <<input, phase, ctf, memo, warnings, result>>

----------------------------------------------------------------------------
(* Floats, as exact rationals <<numerator, denominator>> in lowest terms   *)
(* with a positive denominator                                             *)

Abs(n) == IF n < 0 THEN 0 - n ELSE n

RECURSIVE GCD(_, _)
GCD(a, b) == IF b = 0 THEN a ELSE GCD(b, a % b)

Rat(n, d) ==
    LET sn == IF d < 0 THEN 0 - n ELSE n
        sd == Abs(d)
        g  == GCD(Abs(sn), sd)
    IN  <<sn \div g, sd \div g>>

Zero == Rat(0, 1)
One == Rat(1, 1)

RatAdd(x, y) == Rat(x[1] * y[2] + y[1] * x[2], x[2] * y[2])
RatSub(x, y) == Rat(x[1] * y[2] - y[1] * x[2], x[2] * y[2])
RatDiv(x, y) == Rat(x[1] * y[2], x[2] * y[1])
RatLess(x, y) == x[1] * y[2] < y[1] * x[2]

----------------------------------------------------------------------------
(* Score: combined and the categories mapping. A value of the mapping is   *)
(* a float or, since __init__ stores its keyword arguments as they come,   *)
(* a dict                                                                  *)

Float(x) == [kind |-> "float", num |-> x, dict |-> EmptyDict]
Dict(d) == [kind |-> "dict", num |-> Zero, dict |-> d]

\* Score.__init__(self, combined, **categories): categories is the dict of
\* the keyword arguments other than combined
ScoreInit(combined, kwargs) == [combined |-> combined, categories |-> kwargs]

\* Score.default: cls(combined=..., categories={...}) passes one keyword
\* argument named categories
ScoreDefault(attack, defense, sla) ==
    ScoreInit(RatAdd(RatAdd(attack, defense), sla),
              [k \in {"categories"} |->
                  Dict([c \in {"ATK", "DEF", "SLA"} |->
                          Float(CASE c = "ATK" -> attack
                                  [] c = "DEF" -> defense
                                  [] c = "SLA" -> sla)])])

\* self.categories[cat] + other.categories[cat] (sign 1) or - (sign -1):
\* the exception it raises, if any
CategoryExc(a, b, cat) ==
    IF cat \notin DOMAIN a.categories THEN "KeyError"
    ELSE IF cat \notin DOMAIN b.categories THEN "KeyError"
    ELSE IF a.categories[cat].kind = "dict" \/ b.categories[cat].kind = "dict"
         THEN "TypeError"
         ELSE NoExc

RatOp(x, y, sign) == IF sign = 1 THEN RatAdd(x, y) ELSE RatSub(x, y)

\* Score.__add__ (sign 1) and Score.__sub__ (sign -1): the set of possible
\* outcomes. The comprehension visits the union of the two key sets in the
\* iteration order of a set of strings, which varies from run to run, so
\* the exception raised is that of any key that fails
ScoreOutcomes(a, b, sign) ==
    LET keys    == (DOMAIN a.categories) \cup (DOMAIN b.categories)
        failing == {cat \in keys : CategoryExc(a, b, cat) # NoExc}
    IN  IF failing # {}
        THEN {[exc |-> CategoryExc(a, b, cat), val |-> EmptyDict] : cat \in failing}
        ELSE {[exc |-> NoExc,
               val |-> ScoreInit(RatOp(a.combined, b.combined, sign),
                                 [k \in {"categories"} |->
                                     Dict([cat \in keys |->
                                             Float(RatOp(a.categories[cat].num,
                                                         b.categories[cat].num, sign))])])]}

\* What result records for an operation on the operands held in input
Returned(op, out) ==
    [call |-> [op |-> op, on |-> "operands", args |-> <<<<>>, <<>>>>, nop_team |-> <<>>,
               params |-> <<>>],
     returned |-> out.exc = NoExc, value |-> out.val]

\* a + b on the operands held in input
ScoreAdd ==
    /\ phase = "operands"
    /\ \E out \in ScoreOutcomes(input.a, input.b, 1) :
          /\ raised' = out.exc
          /\ result' = Returned("Score.__add__", out)
    /\ phase' = "added"
    /\ UNCHANGED <<input, ctf, memo, child, cmemo, warnings>>

\* a - b on the operands held in input
ScoreSub ==
    /\ phase = "operands"
    /\ \E out \in ScoreOutcomes(input.a, input.b, -1) :
          /\ raised' = out.exc
          /\ result' = Returned("Score.__sub__", out)
    /\ phase' = "subtracted"
    /\ UNCHANGED <<input, ctf, memo, child, cmemo, warnings>>

\* total += x: the returned Score becomes the left operand of the next
\* operation
Accumulate ==
    /\ phase \in {"added", "subtracted"}
    /\ result.returned
    /\ input' = [input EXCEPT !.a = result.value]
    /\ phase' = "operands"
    /\ UNCHANGED <<ctf, memo, child, cmemo, warnings, raised, result>>

\* Score.default(attack, defense, sla), called on its own
DefaultScore(attack, defense, sla) ==
    /\ phase = "operands"
    /\ raised' = NoExc
    /\ result' = [call |-> [op |-> "Score.default", on |-> "operands",
                            args |-> <<attack, defense, sla>>, nop_team |-> <<>>,
                            params |-> <<>>],
                  returned |-> TRUE, value |-> ScoreDefault(attack, defense, sla)]
    /\ phase' = "built"
    /\ UNCHANGED <<input, ctf, memo, child, cmemo, warnings>>

----------------------------------------------------------------------------
(* ATKLABv1.evaluate. The evaluation state st of one (round, team) holds   *)
(* the exception raised so far, the local score and the CTF's cache; the   *)
(* accumulator acc of the whole evaluation holds the exception, the        *)
(* scoreboard and the cache                                                *)

\* a + b / a - b where both operands come from Score.default or from an
\* earlier sum: their only key is "categories", so there is one outcome
TheOutcome(a, b, sign) == CHOOSE out \in ScoreOutcomes(a, b, sign) : TRUE

\* score += operand (sign 1) / score -= operand (sign -1)
V1Apply(state, operand, sign) ==
    LET Body(st) ==
            IF st.exc # NoExc THEN st
            ELSE Then(TheOutcome(st.score, operand, sign),
                      LAMBDA out : [st EXCEPT !.exc = out.exc,
                                              !.score = IF out.exc = NoExc THEN out.val ELSE @])
    IN  Then(state, Body)

\* The loop over reversed(range(lo, round_id - 1)), entered at previous_round:
\* the number of times present is incremented before the break
RECURSIVE V1Streak(_, _, _, _, _)
V1Streak(c, team, service, previous_round, lo) ==
    IF previous_round < lo THEN 0
    ELSE IF c.rounds[previous_round + 1][team].service_states[service] # "RECOVERING"
         THEN 0
         ELSE 1 + V1Streak(c, team, service, previous_round - 1, lo)

V1Present(c, round_id, team, service, state) ==
    LET retention == c.config.flag_retention
        max_flags == Min(round_id + 1, retention)
    IN  CASE state = "OK" -> max_flags
          [] state = "RECOVERING" ->
                Min(1 + V1Streak(c, team, service, round_id - 2,
                                 Max(0, round_id - retention)),
                    max_flags)
          [] OTHER -> 0

\* SLA points: the loop over team_data.service_states.items()
RECURSIVE V1Sla(_, _, _, _, _)
V1Sla(entry, c, round_id, team, services) ==
    LET Body(st) ==
            IF st.exc # NoExc \/ services = <<>> THEN st
            ELSE LET service   == Head(services)
                     state     == c.rounds[round_id + 1][team].service_states[service]
                     max_flags == Min(round_id + 1, c.config.flag_retention)
                     present   == V1Present(c, round_id, team, service, state)
                     next      == IF state \notin {"OK", "RECOVERING"} THEN st
                                  ELSE IF max_flags = 0
                                       THEN [st EXCEPT !.exc = "ZeroDivisionError"]
                                       ELSE V1Apply(st, ScoreDefault(Zero, Zero,
                                                                     Rat(present, max_flags)), 1)
                 IN  V1Sla(next, c, round_id, team, Tail(services))
    IN  Then(entry, Body)

\* ctf.flag_captures[flag_id]: the memoized mapping is a defaultdict, so the
\* read of a missing key inserts FlagCaptures() for it
ReadFlagCaptures(cache, c, flag_id) ==
    LET cache1   == CachingWrapper(cache, "CTF.flag_captures", c)
        captures == cache1["CTF.flag_captures"]
    IN  IF flag_id \in DOMAIN captures THEN cache1
        ELSE Overlay(cache1,
                     [n \in {"CTF.flag_captures"} |->
                         Overlay(captures, [f \in {flag_id} |-> NewFlagCaptures])])

\* Attack points: the loop over team_data.flags_captured
RECURSIVE V1Attack(_, _, _, _)
V1Attack(entry, c, team, captured) ==
    LET flag_id == Head(captured)
        \* capture_count = ctf.flag_captures[flag_id].count and the addition
        Count(st, cache2) ==
            LET capture_count == cache2["CTF.flag_captures"][flag_id].count
            IN  IF capture_count = 0
                THEN [st EXCEPT !.cache = cache2, !.exc = "ZeroDivisionError"]
                ELSE V1Apply([st EXCEPT !.cache = cache2],
                             ScoreDefault(RatDiv(RatAdd(One, Rat(1, capture_count)), Rat(2, 1)),
                                          Zero, Zero),
                             1)
        \* flag = ctf.flags[flag_id] and the owner test
        Lookup(st, cache1) ==
            LET flags == cache1["CTF.flags"]
            IN  IF flag_id \notin DOMAIN flags
                THEN [st EXCEPT !.cache = cache1, !.exc = "KeyError"]
                ELSE IF flags[flag_id].owner = team
                THEN [st EXCEPT !.cache = cache1]
                ELSE Then(ReadFlagCaptures(cache1, c, flag_id), LAMBDA cache2 : Count(st, cache2))
        Body(st) ==
            IF st.exc # NoExc \/ captured = <<>> THEN st
            ELSE V1Attack(Then(CachingWrapper(st.cache, "CTF.flags", c),
                               LAMBDA cache1 : Lookup(st, cache1)),
                          c, team, Tail(captured))
    IN  Then(entry, Body)

\* The flag ids in the order of team_data.flags_stored.values() and, within
\* a service, of its flagstores
RECURSIVE StoredSeqFrom(_, _)
StoredSeqFrom(stored, services) ==
    IF services = <<>> THEN <<>>
    ELSE LET per    == stored[Head(services)]
             stores == SelectSeq(FlagstoresOf[Head(services)], LAMBDA f : f \in DOMAIN per)
         IN  [i \in 1..Len(stores) |-> per[stores[i]]] \o StoredSeqFrom(stored, Tail(services))

StoredSeq(team_data) ==
    StoredSeqFrom(team_data.flags_stored,
                  SelectSeq(ServiceOrder, LAMBDA s : s \in DOMAIN team_data.flags_stored))

\* Defense points: the loops over team_data.flags_stored
RECURSIVE V1Defense(_, _, _)
V1Defense(entry, c, stored) ==
    LET flag_id == Head(stored)
        \* count := ctf.flag_captures[flag_id].count and the subtraction
        Count(st, cache1) ==
            LET count == cache1["CTF.flag_captures"][flag_id].count
            IN  IF count = 0 THEN [st EXCEPT !.cache = cache1]
                ELSE V1Apply([st EXCEPT !.cache = cache1],
                             ScoreDefault(Zero,
                                          RatDiv(RatAdd(One, Rat(count, Len(c.teams))),
                                                 Rat(2, 1)),
                                          Zero),
                             -1)
        Body(st) ==
            IF st.exc # NoExc \/ stored = <<>> THEN st
            ELSE V1Defense(Then(ReadFlagCaptures(st.cache, c, flag_id),
                                LAMBDA cache1 : Count(st, cache1)),
                           c, Tail(stored))
    IN  Then(entry, Body)

\* The body of the loop over round_data.items(), ending with
\* scoreboard[team] += score on the defaultdict(Score.default)
V1TeamRound(entry, c, round_id, team) ==
    LET team_data == c.rounds[round_id + 1][team]
        \* scoreboard[team] += score
        Finish(acc, st3) ==
            LET old == IF team \in DOMAIN acc.board THEN acc.board[team]
                       ELSE ScoreDefault(Zero, Zero, Zero)
            IN  Then(IF st3.exc # NoExc THEN [exc |-> st3.exc, val |-> EmptyDict]
                     ELSE TheOutcome(old, st3.score, 1),
                     LAMBDA out :
                        [exc   |-> out.exc,
                         board |-> IF out.exc = NoExc
                                   THEN Overlay(acc.board, [t \in {team} |-> out.val])
                                   ELSE acc.board,
                         cache |-> st3.cache])
        Body(acc) ==
            IF acc.exc # NoExc THEN acc
            ELSE LET st0 == [exc |-> NoExc, score |-> ScoreDefault(Zero, Zero, Zero),
                             cache |-> acc.cache]
                     st1 == V1Sla(st0, c, round_id, team,
                                  SelectSeq(ServiceOrder,
                                            LAMBDA s : s \in DOMAIN team_data.service_states))
                     st2 == V1Attack(st1, c, team, team_data.flags_captured)
                 IN  Then(V1Defense(st2, c, StoredSeq(team_data)),
                          LAMBDA st3 : Finish(acc, st3))
    IN  Then(entry, Body)

\* ATKLABv1(nop_team=nop_team).evaluate(c) on a CTF whose cache is `cache`;
\* nop_team is <<>> for None and <<name>> for a team name
ATKLABv1Evaluate(c, cache, nop_team) ==
    IF nop_team # <<>> /\ nop_team[1] \notin Range(c.teams)
    THEN [exc |-> "KeyError", board |-> EmptyDict, cache |-> cache]
    ELSE IF c.config.flag_retention = UNSET
    THEN [exc |-> "KeyError", board |-> EmptyDict, cache |-> cache]
    ELSE LET nt == Len(c.teams)
             F[k \in 0..(Len(c.rounds) * nt)] ==
                 IF k = 0 THEN [exc |-> NoExc, board |-> EmptyDict, cache |-> cache]
                 ELSE V1TeamRound(F[k - 1], c, (k - 1) \div nt, c.teams[((k - 1) % nt) + 1])
         IN  F[Len(c.rounds) * nt]

\* What result records for an evaluate call
Evaluated(on, args, nop_team, out) ==
    [call |-> [op |-> "ATKLABv1.evaluate", on |-> on, args |-> args, nop_team |-> nop_team,
               params |-> <<>>],
     returned |-> out.exc = NoExc,
     value |-> IF out.exc = NoExc THEN out.board ELSE EmptyDict]

\* ATKLABv1(nop_team=nop_team).evaluate(ctf)
EvaluateATKLABv1(nop_team) ==
    /\ phase = "ready"
    /\ \E out \in {ATKLABv1Evaluate(ctf, memo, nop_team)} :
          /\ memo' = out.cache
          /\ raised' = out.exc
          /\ result' = Evaluated("ctf", <<<<>>, <<>>>>, nop_team, out)
    /\ UNCHANGED <<input, phase, ctf, child, cmemo, warnings>>

\* ATKLABv1(nop_team=nop_team).evaluate(sliced) on the CTF slice() returned
EvaluateATKLABv1OnSlice(nop_team) ==
    /\ child.exists
    /\ \E out \in {ATKLABv1Evaluate(child.obj, cmemo, nop_team)} :
          /\ cmemo' = out.cache
          /\ raised' = out.exc
          /\ result' = Evaluated("slice", child.args, nop_team, out)
    /\ UNCHANGED <<input, phase, ctf, memo, child, warnings>>

----------------------------------------------------------------------------
(* ATKLABv2.evaluate and ECSC2025.evaluate. The two methods are the same   *)
(* statements up to and including the first addition to the scoreboard     *)
(* (atklabv2.py 140-211, ecsc2025.py 51-122). That addition adds           *)
(* Score.default(sla=sla) to the Score.default() of the defaultdict, for   *)
(* the first team of the first round, so the statements after it run only  *)
(* when no round lists a team: the attack loop over round_data.items() is  *)
(* then empty and the defense loop reads ctf.flagstores and iterates over  *)
(* an empty ctf.teams                                                      *)

\* Lines 160-166: the loop over team_data.flags_captured that fills
\* attacked_teams, kept as the set of
\* <<round_id, service, flagstore, attacker, victim>>
RECURSIVE V2Attacked(_, _, _, _, _)
V2Attacked(entry, c, nop_team, team, captured) ==
    LET flag_id == Head(captured)
        \* flag = ctf.flags[flag_id] and the owner / NOP test
        Lookup(st, cache1) ==
            LET flags == cache1["CTF.flags"]
            IN  IF flag_id \notin DOMAIN flags
                THEN [st EXCEPT !.cache = cache1, !.exc = "KeyError"]
                ELSE LET flag == flags[flag_id]
                     IN  IF \/ flag.owner = team
                            \/ (nop_team # <<>> /\ nop_team[1] \in {flag.owner, team})
                         THEN [st EXCEPT !.cache = cache1]
                         ELSE [st EXCEPT !.cache = cache1,
                                         !.attacked = @ \cup {<<flag.round_id, flag.service,
                                                                flag.flagstore, team,
                                                                flag.owner>>}]
        Body(st) ==
            IF st.exc # NoExc \/ captured = <<>> THEN st
            ELSE V2Attacked(Then(CachingWrapper(st.cache, "CTF.flags", c),
                                 LAMBDA cache1 : Lookup(st, cache1)),
                            c, nop_team, team, Tail(captured))
    IN  Then(entry, Body)

\* Lines 158-166: the pre-computation over ctf.enumerate()
V2AttackedTeams(c, cache, nop_team) ==
    LET nt == Len(c.teams)
        F[k \in 0..(Len(c.rounds) * nt)] ==
            IF k = 0 THEN [exc |-> NoExc, cache |-> cache, attacked |-> {}]
            ELSE LET round_id == (k - 1) \div nt
                     team     == c.teams[((k - 1) % nt) + 1]
                 IN  V2Attacked(F[k - 1], c, nop_team, team,
                                c.rounds[round_id + 1][team].flags_captured)
    IN  F[Len(c.rounds) * nt]

\* Lines 172-177: active_teams[round_id]
V2ActiveTeams(c, round_id, nop_team) ==
    {team \in Range(c.teams) :
        /\ nop_team # <<team>>
        /\ \E s \in DOMAIN c.rounds[round_id + 1][team].service_states :
              c.rounds[round_id + 1][team].service_states[s] # "OFFLINE"}

\* Lines 194-209: the flags of (team, service) placed in the validity
\* period that ctf.flag_states[round_id] reports as OK
V2Retrievable(c, round_id, team, service) ==
    LET min_round == Max(round_id - c.config.flag_validity + 1, 0)
        Stored(placement_round) == c.rounds[placement_round + 1][team].flags_stored
    IN  Cardinality(
            {<<flagstore, placement_round>> \in
                Range(FlagstoresOf[service]) \X (min_round..round_id) :
                    /\ service \in DOMAIN Stored(placement_round)
                    /\ flagstore \in DOMAIN Stored(placement_round)[service]
                    /\ LET flag_id     == Stored(placement_round)[service][flagstore]
                           flag_states == c.flag_states[round_id + 1]
                       IN  /\ flag_id \in DOMAIN flag_states
                           /\ flag_states[flag_id] = "OK"})

\* Lines 186-210: sla of one team in one round
RECURSIVE V2Sla(_, _, _, _, _, _)
V2Sla(entry, c, round_id, team, services, base) ==
    LET Body(st) ==
            IF st.exc # NoExc \/ services = <<>> THEN st
            ELSE LET service    == Head(services)
                     state      == c.rounds[round_id + 1][team].service_states[service]
                     flagstores == Len(FlagstoresOf[service])
                     max_flags  == c.config.flag_validity * flagstores
                     present    == CASE state = "OK" -> max_flags
                                     [] state = "RECOVERING" ->
                                            V2Retrievable(c, round_id, team, service)
                                     [] OTHER -> 0
                     next       == IF max_flags = 0
                                   THEN [st EXCEPT !.exc = "ZeroDivisionError"]
                                   ELSE [st EXCEPT !.sla =
                                            RatAdd(@, Rat(base * present * flagstores,
                                                          max_flags))]
                 IN  V2Sla(next, c, round_id, team, Tail(services), base)
    IN  Then(entry, Body)

\* Lines 185-211: the body of the SLA loop over round_data.items(), ending
\* with scoreboard[team] += Score.default(sla=sla)
V2TeamSla(entry, c, round_id, team, base) ==
    LET team_data == c.rounds[round_id + 1][team]
        Finish(acc, st) ==
            LET old == IF team \in DOMAIN acc.board THEN acc.board[team]
                       ELSE ScoreDefault(Zero, Zero, Zero)
            IN  Then(IF st.exc # NoExc THEN [exc |-> st.exc, val |-> EmptyDict]
                     ELSE TheOutcome(old, ScoreDefault(Zero, Zero, st.sla), 1),
                     LAMBDA out :
                        [acc EXCEPT !.exc = out.exc,
                                    !.board = IF out.exc = NoExc
                                              THEN Overlay(@, [t \in {team} |-> out.val])
                                              ELSE @])
        Body(acc) ==
            IF acc.exc # NoExc THEN acc
            ELSE Then(V2Sla([exc |-> NoExc, sla |-> Zero], c, round_id, team,
                            SelectSeq(ServiceOrder,
                                      LAMBDA s : s \in DOMAIN team_data.service_states),
                            base),
                      LAMBDA st : Finish(acc, st))
    IN  Then(entry, Body)

\* Lines 181-293: one round of the scoreboard calculation
V2Round(entry, c, round_id, base) ==
    LET nt == Len(c.teams)
        F[k \in 0..nt] ==
            IF k = 0 THEN entry ELSE V2TeamSla(F[k - 1], c, round_id, c.teams[k], base)
        \* Lines 213-293 when round_data and ctf.teams are empty: the defense
        \* loop reads ctf.flagstores
        Rest(acc) ==
            IF acc.exc # NoExc THEN acc
            ELSE [acc EXCEPT !.cache = CachingWrapper(@, "CTF.flagstores", c)]
    IN  Then(F[nt], Rest)

\* A variant that tests nop_team after the pre-computation of attacked_teams
ATKLABv2Evaluate_LateNopTest(c, cache, nop_team, base) ==
    LET pre == V2AttackedTeams(c, cache, <<>>)
    IN  [exc   |-> IF nop_team # <<>> /\ nop_team[1] \notin Range(c.teams) THEN "KeyError"
                   ELSE "TypeError",
         board |-> EmptyDict,
         cache |-> pre.cache]

\* ATKLABv2(nop_team=nop_team, base=base, ...).evaluate(c) on a CTF whose
\* cache is `cache`. ctf.flag_states is never UNSET on a constructed CTF
ATKLABv2Evaluate(c, cache, nop_team, base) ==
    IF nop_team # <<>> /\ nop_team[1] \notin Range(c.teams)
    THEN [exc |-> "KeyError", board |-> EmptyDict, cache |-> cache]
    ELSE IF c.config.flag_validity = UNSET
    THEN [exc |-> "KeyError", board |-> EmptyDict, cache |-> cache]
    ELSE LET Rounds(pre) ==
                 LET F[r \in 0..Len(c.rounds)] ==
                         IF r = 0 THEN [exc |-> pre.exc, board |-> EmptyDict,
                                        cache |-> pre.cache]
                         ELSE V2Round(F[r - 1], c, r - 1, base)
                 IN  F[Len(c.rounds)]
         IN  Then(V2AttackedTeams(c, cache, nop_team), Rounds)

\* ECSC2025(nop_team=nop_team, base=base).evaluate(c): ecsc2025.py 51-122
\* are the statements of atklabv2.py 140-211
ECSC2025Evaluate(c, cache, nop_team, base) == ATKLABv2Evaluate(c, cache, nop_team, base)

\* What result records for an evaluate call of formula `op`
EvaluatedBy(op, params, on, args, nop_team, out) ==
    [call |-> [op |-> op, on |-> on, args |-> args, nop_team |-> nop_team,
               params |-> params],
     returned |-> out.exc = NoExc,
     value |-> IF out.exc = NoExc THEN out.board ELSE EmptyDict]

\* The jeopardy formulas with the alpha and beta passed to the constructor
\* (<<>> is None), and base
V2Params ==
    {[jeopardy |-> j, alpha |-> a, beta |-> b, base |-> 10] :
        <<j, a, b>> \in {<<"ECSC2025", <<>>, <<>>>>, <<"ECSC2025", <<1>>, <<>>>>,
                         <<"DHM", <<>>, <<1>>>>}}

\* ATKLABv2(nop_team=nop_team, jeopardy=..., alpha=..., beta=...).evaluate(ctf)
EvaluateATKLABv2(nop_team, params) ==
    /\ phase = "ready"
    /\ \E out \in {ATKLABv2Evaluate(ctf, memo, nop_team, params.base)} :
          /\ memo' = out.cache
          /\ raised' = out.exc
          /\ result' = EvaluatedBy("ATKLABv2.evaluate", params, "ctf", <<<<>>, <<>>>>,
                                   nop_team, out)
    /\ UNCHANGED <<input, phase, ctf, child, cmemo, warnings>>

\* ECSC2025(nop_team=nop_team).evaluate(ctf)
EvaluateECSC2025(nop_team) ==
    /\ phase = "ready"
    /\ \E out \in {ECSC2025Evaluate(ctf, memo, nop_team, 10)} :
          /\ memo' = out.cache
          /\ raised' = out.exc
          /\ result' = EvaluatedBy("ECSC2025.evaluate", <<>>, "ctf", <<<<>>, <<>>>>,
                                   nop_team, out)
    /\ UNCHANGED <<input, phase, ctf, child, cmemo, warnings>>

----------------------------------------------------------------------------
(* SaarCTF2024: _rank and evaluate. As in ATKLABv2, the first addition to  *)
(* the scoreboard (line 87) adds Score.default(sla=...) to the             *)
(* Score.default() the scoreboard was seeded with, so the attack and       *)
(* defense loops (lines 92-175) run only when no round lists a team, and   *)
(* are then empty                                                          *)

\* Python's order on the team names of the inputs
NameOrder == <<"A", "B", "C", "NOP">>
NameLess(a, b) == IndexOf(NameOrder, a) < IndexOf(NameOrder, b)

\* (score_a, a) < (score_b, b) on tuples
PairLess(score_a, a, score_b, b) ==
    RatLess(score_a, score_b) \/ (score_a = score_b /\ NameLess(a, b))

\* Line 37: sorted(((scoreboard[team].combined, team) for team in teams),
\* reverse=True), as the sequence of teams
RECURSIVE SortedDescending(_, _)
SortedDescending(scoreboard, teams) ==
    IF teams = {} THEN <<>>
    ELSE LET top == CHOOSE t \in teams :
                        \A u \in teams \ {t} :
                            PairLess(scoreboard[u].combined, u,
                                     scoreboard[t].combined, t)
         IN  <<top>> \o SortedDescending(scoreboard, teams \ {top})

\* Lines 38-51: the loop over ordered; previous is <<>> for None and
\* <<rank, score>> otherwise
RECURSIVE RankLoop(_, _, _, _, _)
RankLoop(scoreboard, ordered, previous, counter, ranking) ==
    IF ordered = <<>> THEN ranking
    ELSE LET team  == Head(ordered)
             score == scoreboard[team].combined
             rank  == IF previous # <<>> /\ previous[2] = score THEN previous[1]
                      ELSE counter
         IN  RankLoop(scoreboard, Tail(ordered), <<rank, score>>,
                      IF RatLess(Zero, score) THEN counter + 1 ELSE counter,
                      Overlay(ranking, [t \in {team} |-> rank]))

\* SaarCTF2024._rank(scoreboard, teams)
Rank(scoreboard, teams) ==
    RankLoop(scoreboard, SortedDescending(scoreboard, Range(teams)), <<>>, 1, EmptyDict)

\* SaarCTF2024._rank(scoreboard, teams), called on the scoreboard held in
\* input
ComputeRank ==
    /\ phase = "scoreboard"
    /\ raised' = NoExc
    /\ result' = [call |-> [op |-> "SaarCTF2024._rank", on |-> "scoreboard",
                            args |-> <<<<>>, <<>>>>, nop_team |-> <<>>, params |-> <<>>],
                  returned |-> TRUE, value |-> Rank(input.scoreboard, input.teams)]
    /\ phase' = "ranked"
    /\ UNCHANGED <<input, ctf, memo, child, cmemo, warnings>>

\* The largest k of lo..hi with k * k <= n
RECURSIVE IsqrtIn(_, _, _)
IsqrtIn(n, lo, hi) ==
    IF lo = hi THEN lo
    ELSE LET mid == (lo + hi + 1) \div 2
         IN  IF mid * mid <= n THEN IsqrtIn(n, mid, hi) ELSE IsqrtIn(n, lo, mid - 1)

\* n ** 0.5 for a natural number n, to two decimal places
Root(n) == Rat(IsqrtIn(n * 10000, 0, n * 100), 100)

\* Line 83: num_active_teams[round_id]
SaarActiveTeams(c, round_id) ==
    Max(1, Cardinality({team \in Range(c.teams) :
                           \E s \in DOMAIN c.rounds[round_id + 1][team].service_states :
                               c.rounds[round_id + 1][team].service_states[s]
                                   \in {"OK", "RECOVERING"}}))

\* Lines 82, 86, 88: sum(sla[(team, service)] for service in ctf.services)
\* with sla_factor = 1.0
RECURSIVE SaarSla(_, _, _, _)
SaarSla(c, round_id, team, services) ==
    IF services = <<>> THEN Zero
    ELSE LET states == c.rounds[round_id + 1][team].service_states
             here   == IF Head(services) \in DOMAIN states /\ states[Head(services)] = "OK"
                       THEN Root(SaarActiveTeams(c, round_id))
                       ELSE Zero
         IN  RatAdd(here, SaarSla(c, round_id, team, Tail(services)))

\* Lines 84-89: scoreboard[team] += Score.default(sla=...)
SaarTeamSla(entry, c, round_id, team) ==
    LET Body(acc) ==
            IF acc.exc # NoExc THEN acc
            ELSE Then(TheOutcome(acc.board[team],
                                 ScoreDefault(Zero, Zero, SaarSla(c, round_id, team, ServiceOrder)),
                                 1),
                      LAMBDA out :
                         [acc EXCEPT !.exc = out.exc,
                                     !.board = IF out.exc = NoExc
                                               THEN Overlay(@, [t \in {team} |-> out.val])
                                               ELSE @])
    IN  Then(entry, Body)

\* Lines 68-175: one round; rankings[round_id] is read by the attack loop only
SaarRound(entry, c, round_id) ==
    LET nt == Len(c.teams)
        F[k \in 0..nt] ==
            IF k = 0 THEN entry ELSE SaarTeamSla(F[k - 1], c, round_id, c.teams[k])
    IN  F[nt]

\* SaarCTF2024(nop_team=nop_team).evaluate(c) on a CTF whose cache is `cache`
SaarCTF2024Evaluate(c, cache, nop_team) ==
    IF nop_team # <<>> /\ nop_team[1] \notin Range(c.teams)
    THEN [exc |-> "KeyError", board |-> EmptyDict, cache |-> cache]
    ELSE LET F[r \in 0..Len(c.rounds)] ==
                 IF r = 0
                 THEN [exc |-> NoExc,
                       board |-> [t \in Range(c.teams) |-> ScoreDefault(Zero, Zero, Zero)],
                       cache |-> cache]
                 ELSE SaarRound(F[r - 1], c, r - 1)
         IN  F[Len(c.rounds)]

\* SaarCTF2024(nop_team=nop_team).evaluate(ctf)
EvaluateSaarCTF2024(nop_team) ==
    /\ phase = "ready"
    /\ \E out \in {SaarCTF2024Evaluate(ctf, memo, nop_team)} :
          /\ memo' = out.cache
          /\ raised' = out.exc
          /\ result' = EvaluatedBy("SaarCTF2024.evaluate", <<>>, "ctf", <<<<>>, <<>>>>,
                                   nop_team, out)
    /\ UNCHANGED <<input, phase, ctf, child, cmemo, warnings>>

----------------------------------------------------------------------------
(* ECSC2024.evaluate. A float amount of points is a fixed-point number     *)
(* with two decimal places, held as the integer number of hundredths;      *)
(* math.sqrt and math.exp are computed to that precision. The Scores of    *)
(* the returned scoreboard hold the amounts as rationals                   *)

\* base = 5000.0, scale = 15 * math.sqrt(5) = 33.54, in hundredths
ECSC2024Base == 500000
ECSC2024Scale == 3354
\* norm = math.log(math.log(5)) / 12 = 0.03966, in units of 10^-5
ECSC2024Norm == 3966
ECSC2024FlagValidity == 6

\* ServiceScore(base)
ServiceScore(base) ==
    [base |-> base, attack |-> 0, defense |-> 0, rounds |-> 0, up_rounds |-> 0]

\* ServiceScore.sum, .score and .total
ServiceScoreSum(self) == self.base + self.attack - self.defense

ServiceScoreScore(self) == Max(0, ServiceScoreSum(self))

\* A variant of total() without the branch for rounds == 0
ServiceScoreTotal_NoUncheckedBranch(self) ==
    Rat(ServiceScoreScore(self) * self.up_rounds, 100 * Max(self.rounds, 1))

ServiceScoreTotal(self) ==
    IF self.rounds = 0 THEN Rat(self.base, 100)
    ELSE Rat(ServiceScoreScore(self) * self.up_rounds, 100 * self.rounds)

\* math.sqrt of an amount, in hundredths
SqrtOf(amount) == IsqrtIn(amount * 100, 0, 46340)

\* math.exp(z) for z in units of 10^-4, in units of 10^-4: the Taylor series
RECURSIVE ExpTerms(_, _, _)
ExpTerms(z, term, k) ==
    IF k > 8 THEN 0
    ELSE term + ExpTerms(z, (term * z) \div (10000 * k), k + 1)

ExpOf(z) == ExpTerms(z, 10000, 1)

\* Lines 114-115: delta for a capture
Delta(attacker_score, victim_score) ==
    LET score_delta == SqrtOf(attacker_score) - SqrtOf(victim_score)
        z           == (score_delta * ECSC2024Norm) \div 1000
    IN  (ECSC2024Scale * 10000) \div (10000 + ExpOf(z))

\* Lines 86-92: can_getflag, or the KeyError of flags_stored[service]; the
\* loop over range(min_related_round, round_id) from related_round on
RECURSIVE CanGetflag(_, _, _, _, _)
CanGetflag(c, team, service, related_round, round_id) ==
    IF related_round >= round_id THEN [exc |-> NoExc, val |-> FALSE]
    ELSE IF team \notin DOMAIN c.rounds[related_round + 1]
    THEN [exc |-> "KeyError", val |-> FALSE]
    ELSE LET stored == c.rounds[related_round + 1][team].flags_stored
         IN  IF service \notin DOMAIN stored THEN [exc |-> "KeyError", val |-> FALSE]
             ELSE IF DOMAIN stored[service] # {} THEN [exc |-> NoExc, val |-> TRUE]
             ELSE CanGetflag(c, team, service, related_round + 1, round_id)

\* A variant in which a RECOVERING service always counts as up
UpRound_AnyRecovering(service_status, can_getflag) ==
    service_status \in {"OK", "RECOVERING"}

\* Lines 93-97: the condition under which up_rounds is incremented
UpRound(service_status, can_getflag) ==
    \/ service_status = "OK"
    \/ (service_status = "RECOVERING" /\ ~can_getflag)

\* Lines 84-100: the up_rounds and rounds counters of one team in one round.
\* skip_sla of lines 75-80 is computed and never read
RECURSIVE ECSC2024Sla(_, _, _, _, _)
ECSC2024Sla(entry, c, round_id, team, services) ==
    LET Body(st) ==
            IF st.exc # NoExc \/ services = <<>> THEN st
            ELSE LET service        == Head(services)
                     service_status == c.rounds[round_id + 1][team].service_states[service]
                     can == CanGetflag(c, team, service,
                                       Max(0, round_id - ECSC2024FlagValidity + 1), round_id)
                     up  == UpRound(service_status, can.val)
                     old == st.new[team][service]
                     upd == [old EXCEPT !.up_rounds = IF up THEN @ + 1 ELSE @,
                                        !.rounds = IF service_status # "ERROR" THEN @ + 1
                                                   ELSE @]
                 IN  ECSC2024Sla(IF can.exc # NoExc THEN [st EXCEPT !.exc = can.exc]
                                 ELSE [st EXCEPT !.new[team][service] = upd],
                                 c, round_id, team, Tail(services))
    IN  Then(entry, Body)

\* scores[round_id][team][service] on the defaultdicts: a missing entry is
\* ServiceScore(self.base)
ScoreAt(scores, round_id, team, service, base) ==
    IF /\ round_id \in DOMAIN scores
       /\ team \in DOMAIN scores[round_id]
       /\ service \in DOMAIN scores[round_id][team]
    THEN scores[round_id][team][service]
    ELSE ServiceScore(base)

\* A variant that always reads the seed
RelatedRound_Seed(flag_round_id) == -1

\* Lines 106-109: the key of related_scores, scores[-1] for a flag placed in
\* round 0 and scores[flag.round_id] otherwise
RelatedRound(flag_round_id) == IF flag_round_id = 0 THEN -1 ELSE flag_round_id

\* Lines 102-117: the loop over team_data.flags_captured
RECURSIVE ECSC2024Captures(_, _, _, _, _, _, _)
ECSC2024Captures(entry, c, scores, round_id, team, captured, base) ==
    LET flag_id == Head(captured)
        Lookup(st, cache1) ==
            LET flags == cache1["CTF.flags"]
            IN  IF flag_id \notin DOMAIN flags
                THEN [st EXCEPT !.cache = cache1, !.exc = "KeyError"]
                ELSE IF flags[flag_id].round_id = round_id
                THEN [st EXCEPT !.cache = cache1, !.exc = "AssertionError"]
                ELSE LET flag     == flags[flag_id]
                         related  == RelatedRound(flag.round_id)
                         attacker == ServiceScoreScore(
                                         ScoreAt(scores, related, team, flag.service,
                                                 base))
                         victim   == ServiceScoreScore(
                                         ScoreAt(scores, related, flag.owner, flag.service,
                                                 base))
                     IN  Then(Delta(attacker, victim),
                              LAMBDA delta :
                                 Then([st EXCEPT !.cache = cache1,
                                                 !.new[team][flag.service].attack = @ + delta],
                                      LAMBDA st1 :
                                         [st1 EXCEPT
                                             !.new[flag.owner][flag.service].defense =
                                                 @ + delta]))
        Body(st) ==
            IF st.exc # NoExc \/ captured = <<>> THEN st
            ELSE ECSC2024Captures(Then(CachingWrapper(st.cache, "CTF.flags", c),
                                       LAMBDA cache1 : Lookup(st, cache1)),
                                  c, scores, round_id, team, Tail(captured), base)
    IN  Then(entry, Body)

\* Lines 119-122: for the teams of round_data, a negative sum is added to
\* defense
Clamp(new, round_data) ==
    [team \in DOMAIN new |->
        [service \in DOMAIN new[team] |->
            LET service_score == new[team][service]
            IN  IF team \in DOMAIN round_data /\ ServiceScoreSum(service_score) < 0
                THEN [service_score EXCEPT !.defense = @ + ServiceScoreSum(service_score)]
                ELSE service_score]]

\* Lines 71-117: new_scores of one round before the clamp, the deep copy of
\* the previous round's scores updated for the teams the round lists. acc
\* holds the exception, the cache and scores, the mapping from round ids
\* (-1 is the seed) to the ServiceScores
ECSC2024Updates(acc, c, round_id, base) ==
    LET nt == Len(c.teams)
        Team(st, team) ==
            IF team \notin DOMAIN c.rounds[round_id + 1] THEN st
            ELSE LET team_data == c.rounds[round_id + 1][team]
                 IN  Then(ECSC2024Sla(st, c, round_id, team,
                                      SelectSeq(ServiceOrder,
                                                LAMBDA s :
                                                   s \in DOMAIN team_data.service_states)),
                          LAMBDA st1 :
                             ECSC2024Captures(st1, c, acc.scores, round_id, team,
                                              team_data.flags_captured, base))
        F[k \in 0..nt] ==
            IF k = 0 THEN [exc |-> NoExc, cache |-> acc.cache,
                           new |-> acc.scores[round_id - 1]]
            ELSE Then(F[k - 1], LAMBDA st : Team(st, c.teams[k]))
    IN  F[nt]

\* Lines 71-122: one round
ECSC2024Round(entry, c, round_id, base) ==
    LET Body(acc) ==
            IF acc.exc # NoExc THEN acc
            ELSE Then(ECSC2024Updates(acc, c, round_id, base),
                          LAMBDA st :
                             [exc    |-> st.exc,
                              cache  |-> st.cache,
                              scores |-> IF st.exc # NoExc THEN acc.scores
                                         ELSE Overlay(acc.scores,
                                                      [r \in {round_id} |->
                                                          Clamp(st.new,
                                                                c.rounds[round_id + 1])])])
    IN  Then(entry, Body)

\* Lines 51-122: scores after the loop over ctf.enumerate()
ECSC2024Scores(c, cache, base) ==
    LET seed == [team \in Range(c.teams) |->
                    [service \in Range(ServiceOrder) |-> ServiceScore(base)]]
        F[r \in 0..Len(c.rounds)] ==
            IF r = 0 THEN [exc |-> NoExc, cache |-> cache, scores |-> [x \in {-1} |-> seed]]
            ELSE ECSC2024Round(F[r - 1], c, r - 1, base)
    IN  F[Len(c.rounds)]

\* sum() of a sequence of integers / of rationals
RECURSIVE SumInts(_)
SumInts(seq) == IF seq = <<>> THEN 0 ELSE Head(seq) + SumInts(Tail(seq))

RECURSIVE SumTotals(_)
SumTotals(seq) == IF seq = <<>> THEN Zero ELSE RatAdd(Head(seq), SumTotals(Tail(seq)))

\* Lines 127-147: the Score of one team from its ServiceScores
ECSC2024TeamScore(team_data) ==
    LET Of(f(_))       == [i \in 1..Len(ServiceOrder) |-> f(team_data[ServiceOrder[i]])]
        attack         == SumInts(Of(LAMBDA s : s.attack))
        defense        == SumInts(Of(LAMBDA s : s.defense))
        total          == SumTotals(Of(ServiceScoreTotal))
        up_rounds      == SumInts(Of(LAMBDA s : s.up_rounds))
        checked_rounds == SumInts(Of(LAMBDA s : s.rounds))
    IN  ScoreInit(total,
                  [k \in {"attack", "defense", "sla"} |->
                      Float(CASE k = "attack"  -> Rat(attack, 100)
                              [] k = "defense" -> Rat(0 - defense, 100)
                              [] k = "sla"     -> Rat(up_rounds,
                                                      IF checked_rounds = 0 THEN 1
                                                      ELSE checked_rounds))])

\* A variant that reports the seed
LastRound_Seed(c) == -1

\* Line 125: last_round
LastRound(c) == Len(c.rounds) - 1

\* ECSC2024(base=base).evaluate(c) on a CTF whose cache is `cache`
ECSC2024Evaluate(c, cache, base) ==
    IF \E s \in Range(ServiceOrder) : Len(FlagstoresOf[s]) # 1
    THEN [exc |-> "ValueError", board |-> EmptyDict, cache |-> cache]
    ELSE LET Final(acc) ==
                 IF acc.exc # NoExc
                 THEN [exc |-> acc.exc, board |-> EmptyDict, cache |-> acc.cache]
                 ELSE LET last == acc.scores[LastRound(c)]
                      IN  [exc   |-> NoExc,
                           board |-> [team \in DOMAIN last |-> ECSC2024TeamScore(last[team])],
                           cache |-> acc.cache]
         IN  Then(ECSC2024Scores(c, cache, base), Final)

\* ECSC2024(base=base).evaluate(ctf)
EvaluateECSC2024(base) ==
    /\ phase = "ready"
    /\ \E out \in {ECSC2024Evaluate(ctf, memo, base)} :
          /\ memo' = out.cache
          /\ raised' = out.exc
          /\ result' = EvaluatedBy("ECSC2024.evaluate", [base |-> base], "ctf",
                                   <<<<>>, <<>>>>, <<>>, out)
    /\ UNCHANGED <<input, phase, ctf, child, cmemo, warnings>>

\* ECSC2024(base=base).evaluate(sliced) on the CTF slice() returned
EvaluateECSC2024OnSlice(base) ==
    /\ child.exists
    /\ \E out \in {ECSC2024Evaluate(child.obj, cmemo, base)} :
          /\ cmemo' = out.cache
          /\ raised' = out.exc
          /\ result' = EvaluatedBy("ECSC2024.evaluate", [base |-> base], "slice",
                                   child.args, <<>>, out)
    /\ UNCHANGED <<input, phase, ctf, memo, child, warnings>>

----------------------------------------------------------------------------
(* Inputs of the estimator specification: two teams; team A's service       *)
(* state varies freely per round and at most one of its rounds (the first  *)
(* or the last) lacks a stored flag; team B is healthy and stores a flag   *)
(* in every round                                                          *)

EstTeams == <<"A", "B">>

StateSeqs(n) == [1..n -> ServiceState]

\* <<p, kind>>: team A's round p-1 stores no flag, as an absent service key
\* ("nokey") or as an empty mapping ("empty"); <<0, "flag">>: no gap
Gaps(n) == {<<0, "flag">>, <<1, "nokey">>, <<n, "nokey">>, <<n, "empty">>}

StoredKind(gap, pos) == IF gap[1] = pos THEN gap[2] ELSE "flag"

EstRounds(n, states, gap) ==
    [p \in 1..n |->
        [t \in {"A", "B"} |->
            IF t = "A"
            THEN TeamRound(states[p], StoredKind(gap, p), FlagIdOf(p - 1, 1, 2), <<>>)
            ELSE TeamRound("OK", "flag", FlagIdOf(p - 1, 2, 2), <<>>)]]

EstInput(n, states, gap, v) ==
    [teams |-> EstTeams, rounds |-> EstRounds(n, states, gap),
     config |-> [flag_validity |-> v, flag_retention |-> UNSET]]

InitEst ==
    /\ \E n \in 1..MaxRounds :
          \E states \in StateSeqs(n), gap \in Gaps(n), v \in 1..MaxRetention :
              input = EstInput(n, states, gap, v)
    /\ Fresh

NextEst == Construct

SpecEst == InitEst /\ [][NextEst]_vars

----------------------------------------------------------------------------
(* Inputs of the slice specification: team A is OK or RECOVERING in each    *)
(* round, every team stores a flag in every round, and with captures on,   *)
(* team B captures in every round the flag team A stored one round before  *)

SliceRounds(n, states, captures) ==
    [p \in 1..n |->
        [t \in {"A", "B"} |->
            IF t = "A"
            THEN TeamRound(states[p], "flag", FlagIdOf(p - 1, 1, 2), <<>>)
            ELSE TeamRound("OK", "flag", FlagIdOf(p - 1, 2, 2),
                           IF captures /\ p >= 2 THEN <<FlagIdOf(p - 2, 1, 2)>> ELSE <<>>)]]

SliceInput(n, states, captures, v) ==
    [teams |-> EstTeams, rounds |-> SliceRounds(n, states, captures),
     config |-> [flag_validity |-> v, flag_retention |-> UNSET]]

InitSlice ==
    /\ \E n \in 1..MaxSliceRounds :
          \E states \in [1..n -> {"OK", "RECOVERING"}], captures \in BOOLEAN, v \in 1..2 :
              input = SliceInput(n, states, captures, v)
    /\ Fresh

\* slice(None, None) and slice(from, to) with 0 <= from <= to <= |rounds|
SliceArgs ==
    {<<<<>>, <<>>>>} \cup
    {<<<<lo>>, <<hi>>>> : <<lo, hi>> \in
        {x \in (0..Len(ctf.rounds)) \X (0..Len(ctf.rounds)) : x[1] <= x[2]}}

NextSlice ==
    \/ Construct
    \/ \E name \in IndexNames : ReadParent(name)
    \/ \E name \in IndexNames : ReadChild(name)
    \/ \E args \in SliceArgs : Slice(args[1], args[2])

SpecSlice == InitSlice /\ [][NextSlice]_vars

----------------------------------------------------------------------------
(* Inputs of the Score algebra specification: Scores built by              *)
(* Score(combined, **categories) with category names among attack and      *)
(* defense, and Scores built by Score.default                              *)

ScoreValues == {Rat(v, 1) : v \in 0..MaxScoreValue}

Kwargs == UNION {[keys -> {Float(x) : x \in ScoreValues}] : keys \in SUBSET {"attack", "defense"}}

Operands ==
    {ScoreInit(c, kw) : c \in ScoreValues, kw \in Kwargs}
    \cup {ScoreDefault(x, y, Zero) : x \in ScoreValues, y \in ScoreValues}

InitAlg ==
    /\ \E a \in Operands, b \in Operands : input = [a |-> a, b |-> b]
    /\ phase = "operands"
    /\ ctf = NoCTF
    /\ memo = EmptyDict
    /\ child = NoChild
    /\ cmemo = EmptyDict
    /\ warnings = 0
    /\ raised = NoExc
    /\ result = NoResult

NextAlg ==
    \/ ScoreAdd
    \/ ScoreSub
    \/ Accumulate
    \/ \E attack \in ScoreValues, defense \in ScoreValues, sla \in ScoreValues :
          DefaultScore(attack, defense, sla)

SpecAlg == InitAlg /\ [][NextAlg]_vars

----------------------------------------------------------------------------
(* Inputs of the ranking specification: scoreboards of three teams whose   *)
(* combined scores are integers between -1 and MaxRankScore                *)

RankTeams == <<"A", "B", "C">>

InitRank ==
    /\ \E combined \in [Range(RankTeams) -> (-1)..MaxRankScore] :
          input = [teams |-> RankTeams,
                   scoreboard |-> [t \in Range(RankTeams) |->
                                      ScoreInit(Rat(combined[t], 1), EmptyDict)]]
    /\ phase = "scoreboard"
    /\ ctf = NoCTF
    /\ memo = EmptyDict
    /\ child = NoChild
    /\ cmemo = EmptyDict
    /\ warnings = 0
    /\ raised = NoExc
    /\ result = NoResult

NextRank == ComputeRank

SpecRank == InitRank /\ [][NextRank]_vars

----------------------------------------------------------------------------
(* Inputs of the ECSC2024 specification: teams A and B; team A's service   *)
(* state varies per round; in a round team B captures nothing, the flag    *)
(* team A stored one round before (if it stored one), or the flag team A   *)
(* stored in that same round. Team B is OK and both teams store a flag,    *)
(* except in a round where both teams report ERROR and in a round where    *)
(* team A stores no flag                                                   *)

EcscStates == {"OK", "RECOVERING", "ERROR"}

\* The base of ECSC2024(base=...): the default, or a small one that a
\* single lost flag exhausts
EcscBases == {ECSC2024Base, SmallBase}

EcscCaptures == {"none", "previous", "same"}

\* One round: <<state of A, capture of B, what A stores, state of B>>
EcscProfiles ==
    {<<state, capture, "flag", "OK">> : state \in EcscStates, capture \in EcscCaptures}
        \cup {<<"ERROR", "none", "flag", "ERROR">>,
              <<"RECOVERING", "none", "empty", "OK">>,
              <<"OK", "none", "empty", "OK">>}

EcscRounds(n, profiles) ==
    [p \in 1..n |->
        [t \in {"A", "B"} |->
            IF t = "A"
            THEN TeamRound(profiles[p][1], profiles[p][3], FlagIdOf(p - 1, 1, 2), <<>>)
            ELSE TeamRound(profiles[p][4], "flag", FlagIdOf(p - 1, 2, 2),
                           CASE /\ profiles[p][2] = "previous"
                                /\ p >= 2
                                /\ profiles[p - 1][3] = "flag" -> <<FlagIdOf(p - 2, 1, 2)>>
                             [] profiles[p][2] = "same" -> <<FlagIdOf(p - 1, 1, 2)>>
                             [] OTHER -> <<>>)]]

EcscInput(n, profiles) ==
    [teams |-> EstTeams, rounds |-> EcscRounds(n, profiles),
     config |-> [flag_validity |-> 1, flag_retention |-> UNSET]]

InitECSC2024 ==
    /\ \E n \in 0..MaxEcscRounds :
          \E profiles \in [1..n -> EcscProfiles] :
              input = EcscInput(n, profiles)
    /\ Fresh

NextECSC2024 ==
    \/ Construct
    \/ \E k \in 0..Len(ctf.rounds) : Slice(<<0>>, <<k>>)
    \/ \E base \in EcscBases : EvaluateECSC2024(base)
    \/ \E base \in EcscBases : EvaluateECSC2024OnSlice(base)

SpecECSC2024 == InitECSC2024 /\ [][NextECSC2024]_vars

----------------------------------------------------------------------------
(* Inputs of the clamp specification: teams A and B, flag_validity 1, for  *)
(* which the estimator reads no round but the current one. Team B is OK,   *)
(* stores a flag in every round and captures nothing or the flag team A    *)
(* stored one round before; team A is OK or RECOVERING and stores a flag,  *)
(* or the round does not list team A at all                                *)

ClampProfiles ==
    {<<state, capture>> : state \in {"OK", "RECOVERING", "absent"},
                          capture \in {"none", "previous"}}

ClampRounds(n, profiles) ==
    [p \in 1..n |->
        LET captured == IF profiles[p][2] = "previous" /\ p >= 2
                           /\ profiles[p - 1][1] # "absent"
                        THEN <<FlagIdOf(p - 2, 1, 2)>>
                        ELSE <<>>
            a == TeamRound(profiles[p][1], "flag", FlagIdOf(p - 1, 1, 2), <<>>)
            b == TeamRound("OK", "flag", FlagIdOf(p - 1, 2, 2), captured)
        IN  IF profiles[p][1] # "absent"
            THEN [t \in {"A", "B"} |-> IF t = "A" THEN a ELSE b]
            ELSE [t \in {"B"} |-> b]]

ClampInput(n, profiles) ==
    [teams |-> EstTeams, rounds |-> ClampRounds(n, profiles),
     config |-> [flag_validity |-> 1, flag_retention |-> UNSET]]

InitClamp ==
    /\ \E n \in 1..MaxEcscRounds :
          \E profiles \in [1..n -> ClampProfiles] :
              input = ClampInput(n, profiles)
    /\ Fresh

NextClamp ==
    \/ Construct
    \/ \E base \in EcscBases : EvaluateECSC2024(base)

SpecClamp == InitClamp /\ [][NextClamp]_vars

----------------------------------------------------------------------------
(* Inputs of the scoring specification: teams A and B, or A, B and NOP; in *)
(* each round every team stores one flag, all teams are in the same        *)
(* service state, and the captures of the round are of flags stored in     *)
(* round 0: none, a team's own flag, another team's flag, another team's   *)
(* flag listed twice, NOP's flag, a flag captured by NOP, or team A's flag *)
(* captured by both other teams                                            *)

ScoreTeamLists == {<<"A", "B">>, <<"A", "B", "NOP">>}

ScoreStates == {"OK", "RECOVERING", "OFFLINE"}

\* The captures of one round, each <<capturer, owner, times>>: the flag is
\* listed `times` times in the capturer's flags_captured
ScoreCaptures ==
    {{}, {<<"A", "A", 1>>}, {<<"B", "A", 1>>}, {<<"B", "A", 2>>}, {<<"B", "NOP", 1>>},
     {<<"NOP", "A", 1>>}, {<<"B", "A", 1>>, <<"NOP", "A", 1>>}}

\* The capture options among the teams of the list
CapturesAmong(teams) ==
    {cs \in ScoreCaptures : \A x \in cs : x[1] \in Range(teams) /\ x[2] \in Range(teams)}

ScoreRounds(teams, n, states, captures) ==
    [p \in 1..n |->
        [t \in Range(teams) |->
            TeamRound(states[p], "flag", FlagIdOf(p - 1, IndexOf(teams, t), Len(teams)),
                      IF \E x \in captures[p] : x[1] = t
                      THEN LET x == CHOOSE x \in captures[p] : x[1] = t
                           IN  [i \in 1..x[3] |->
                                   FlagIdOf(0, IndexOf(teams, x[2]), Len(teams))]
                      ELSE <<>>)]]

ScoreInput(teams, n, states, captures, v) ==
    [teams |-> teams, rounds |-> ScoreRounds(teams, n, states, captures),
     config |-> [flag_validity |-> v, flag_retention |-> UNSET]]

InitScore ==
    /\ \E teams \in ScoreTeamLists, n \in 0..MaxScoreRounds :
          \E states \in [1..n -> ScoreStates], captures \in [1..n -> CapturesAmong(teams)],
             v \in 1..2 :
              input = ScoreInput(teams, n, states, captures, v)
    /\ Fresh

\* nop_team: None, a team of the CTF, a name that is not a team of the CTF
NopTeams == {<<>>, <<"NOP">>, <<"ZZZ">>}

NextScore ==
    \/ Construct
    \/ \E k \in 0..Len(ctf.rounds) : Slice(<<0>>, <<k>>)
    \/ \E nop_team \in NopTeams : EvaluateATKLABv1(nop_team)
    \/ \E nop_team \in NopTeams : EvaluateATKLABv1OnSlice(nop_team)

SpecScore == InitScore /\ [][NextScore]_vars

\* The four formulas built on Score.default, evaluated on the same inputs
NextFormulas ==
    \/ Construct
    \/ \E nop_team \in NopTeams : EvaluateATKLABv1(nop_team)
    \/ \E nop_team \in NopTeams, params \in V2Params : EvaluateATKLABv2(nop_team, params)
    \/ \E nop_team \in NopTeams : EvaluateECSC2025(nop_team)
    \/ \E nop_team \in NopTeams : EvaluateSaarCTF2024(nop_team)

SpecFormulas == InitScore /\ [][NextFormulas]_vars

----------------------------------------------------------------------------
(* Inputs of the estimator-trigger specification: the inputs of the slice  *)
(* specification, without flag_states or with flag_states that record      *)
(* every flag as OK in the round that stored it. flag_states is read by    *)
(* CTF.slice (model.py 218-219); ATKLABv1.evaluate and                     *)
(* SaarCTF2024.evaluate do not read it                                     *)

SuppliedFlagStates(n) ==
    [p \in 1..n |->
        [id \in {FlagIdOf(p - 1, 1, 2), FlagIdOf(p - 1, 2, 2)} |-> "OK"]]

TriggerInput(n, states, captures, v, supplied) ==
    IF supplied
    THEN [teams |-> EstTeams, rounds |-> SliceRounds(n, states, captures),
          config |-> [flag_validity |-> v, flag_retention |-> UNSET],
          flag_states |-> SuppliedFlagStates(n)]
    ELSE SliceInput(n, states, captures, v)

InitTrigger ==
    /\ \E n \in 1..MaxSliceRounds :
          \E states \in [1..n -> {"OK", "RECOVERING"}], captures \in BOOLEAN,
             v \in 1..MaxRetention, supplied \in BOOLEAN :
              input = TriggerInput(n, states, captures, v, supplied)
    /\ Fresh

NextTrigger ==
    \/ Construct
    \/ \E args \in SliceArgs : Slice(args[1], args[2])
    \/ \E nop_team \in NopTeams : EvaluateATKLABv1(nop_team)
    \/ \E nop_team \in NopTeams : EvaluateSaarCTF2024(nop_team)

SpecTrigger == InitTrigger /\ [][NextTrigger]_vars

----------------------------------------------------------------------------
(* Claims about the flag-state estimator (checked under SpecEst)            *)

\* The flags team t stored for service s in placement round p (0-based)
StoredIn(rounds, p, t, s) ==
    LET stored == rounds[p + 1][t].flags_stored
    IN  IF s \in DOMAIN stored THEN Range(stored[s]) ELSE {}

\* The checked set C(r, t, s): placement rounds max(0, r-R+1) .. r
WindowFlags(rounds, R, r, t, s) ==
    UNION {StoredIn(rounds, p, t, s) : p \in Max(0, r - R + 1)..r}

RoundIds(c) == 0..(Len(c.rounds) - 1)
TeamSet(c) == Range(c.teams)
ServiceSet == Range(ServiceOrder)
StateOf(c, r, t, s) == c.rounds[r + 1][t].service_states[s]

\* C1: in every round r, flag_states[r] assigns a state only to flags that
\* some team stored for some service in a placement round p with
\* max(0, r-R+1) <= p <= r; in particular to no flag placed later than r.
C1_EstimatorWindow ==
    phase = "ready" =>
        \A r \in RoundIds(ctf) :
            DOMAIN ctf.flag_states[r + 1] \subseteq
                UNION {WindowFlags(ctf.rounds, ctf.config.flag_retention, r, t, s) :
                          t \in TeamSet(ctf), s \in ServiceSet}

\* The number of times `present` is decremented for (r, t, s): the future
\* rounds q of r+1 .. r+R-1 inside the CTF with no OK round in r+1 .. q
Decrements(c, r, t, s) ==
    Cardinality({q \in (r + 1)..Min(r + c.config.flag_retention - 1, Len(c.rounds) - 1) :
                    \A q2 \in (r + 1)..q : StateOf(c, q2, t, s) # "OK"})

ClaimedPresent(c, r, t, s) ==
    Max(1, Min(c.config.flag_retention - 1,
               c.config.flag_retention - 1 - Decrements(c, r, t, s)))

\* Scenario S5: team A's states are OK, RECOVERING, RECOVERING, OK, a flag is
\* stored in every round and flag_retention = 3
ScenarioS5 ==
    /\ phase = "ready"
    /\ Len(ctf.rounds) = 4
    /\ ctf.config.flag_retention = 3
    /\ \A r \in RoundIds(ctf) :
          /\ StateOf(ctf, r, "A", "web") = <<"OK", "RECOVERING", "RECOVERING", "OK">>[r + 1]
          /\ StoredIn(ctf.rounds, r, "A", "web") = {FlagIdOf(r, 1, 2)}

\* C2: for a (team, service) that is RECOVERING in round r, the flags of the
\* checked set placed in the most recent `present` rounds are OK and the
\* other flags of the checked set are MISSING, where present is R-1 minus
\* one per future round before the first OK round (or the end of the CTF),
\* clamped to at least 1 and at most R-1; in scenario S5 present is 1 in
\* round 1 and 2 in round 2 and the oldest flag is MISSING.
C2_RecoveringRule ==
    phase = "ready" =>
        /\ \A r \in RoundIds(ctf), t \in TeamSet(ctf), s \in ServiceSet :
              StateOf(ctf, r, t, s) = "RECOVERING" =>
                  \A p \in Max(0, r - ctf.config.flag_retention + 1)..r :
                      \A f \in StoredIn(ctf.rounds, p, t, s) :
                          /\ f \in DOMAIN ctf.flag_states[r + 1]
                          /\ ctf.flag_states[r + 1][f] =
                                 IF p > r - ClaimedPresent(ctf, r, t, s)
                                 THEN "OK" ELSE "MISSING"
        /\ ScenarioS5 =>
              /\ ClaimedPresent(ctf, 1, "A", "web") = 1
              /\ ClaimedPresent(ctf, 2, "A", "web") = 2
              /\ ctf.flag_states[2][FlagIdOf(1, 1, 2)] = "OK"
              /\ ctf.flag_states[2][FlagIdOf(0, 1, 2)] = "MISSING"
              /\ ctf.flag_states[3][FlagIdOf(2, 1, 2)] = "OK"
              /\ ctf.flag_states[3][FlagIdOf(1, 1, 2)] = "OK"
              /\ ctf.flag_states[3][FlagIdOf(0, 1, 2)] = "MISSING"

C2_Witness == ScenarioS5

\* C3: in every round, every flag of the checked set of a (team, service) is
\* OK when the service state is OK or ERROR and MISSING when it is OFFLINE
\* or MUMBLE.
C3_NonRecoveringRules ==
    phase = "ready" =>
        \A r \in RoundIds(ctf), t \in TeamSet(ctf), s \in ServiceSet :
            \A f \in WindowFlags(ctf.rounds, ctf.config.flag_retention, r, t, s) :
                /\ f \in DOMAIN ctf.flag_states[r + 1]
                /\ StateOf(ctf, r, t, s) \in {"OK", "ERROR"} =>
                       ctf.flag_states[r + 1][f] = "OK"
                /\ StateOf(ctf, r, t, s) \in {"OFFLINE", "MUMBLE"} =>
                       ctf.flag_states[r + 1][f] = "MISSING"

\* An estimated CTF in which team A is ERROR, OFFLINE and MUMBLE in three
\* rounds whose checked sets hold at least two flags each
C3_Witness ==
    /\ phase = "ready"
    /\ \A st \in {"ERROR", "OFFLINE", "MUMBLE"} :
          \E r \in RoundIds(ctf) :
              /\ StateOf(ctf, r, "A", "web") = st
              /\ Cardinality(WindowFlags(ctf.rounds, ctf.config.flag_retention,
                                         r, "A", "web")) >= 2

\* C4: construction without flag_states never fails: the estimator completes
\* and yields exactly one mapping per round.
C4_EstimatorNeverFails ==
    phase # "decoded" =>
        /\ phase = "ready"
        /\ raised = NoExc
        /\ Len(ctf.flag_states) = Len(input.rounds)

----------------------------------------------------------------------------
(* Claims about slice (checked under SpecSlice)                             *)

SliceLo == OptOr(child.args[1], 0)
SliceHi == OptOr(child.args[2], Len(ctf.rounds))

\* The flags stored anywhere in round r (0-based) of c
StoredInRound(c, r) ==
    UNION {StoredIn(c.rounds, r, t, s) : t \in TeamSet(c), s \in ServiceSet}

\* The occurrences of flag id in the flags_captured of c: <<round, team, position>>
CaptureSites(c, id) ==
    {x \in RoundIds(c) \X TeamSet(c) \X (1..MaxRounds) :
        LET captured == c.rounds[x[1] + 1][x[2]].flags_captured
        IN  x[3] <= Len(captured) /\ captured[x[3]] = id}

CapturedIds(c) ==
    UNION {Range(c.rounds[r + 1][t].flags_captured) : r \in RoundIds(c), t \in TeamSet(c)}

\* The sliced CTF holds rounds[from:to] and flag_states[from:to] of its parent,
\* and whatever it has memoized describes its own rounds
C5_ChildIsSlice ==
    child.exists =>
        /\ Len(child.obj.rounds) = SliceHi - SliceLo
        /\ Len(child.obj.flag_states) = SliceHi - SliceLo
        /\ \A i \in 1..(SliceHi - SliceLo) :
              /\ child.obj.rounds[i] = ctf.rounds[SliceLo + i]
              /\ child.obj.flag_states[i] = ctf.flag_states[SliceLo + i]
        /\ "CTF.flagstores" \in DOMAIN cmemo =>
              cmemo["CTF.flagstores"] = <<<<"web", 0>>>>
        /\ "CTF.flags" \in DOMAIN cmemo =>
              LET flags == cmemo["CTF.flags"]
              IN  /\ DOMAIN flags = UNION {StoredInRound(child.obj, r) : r \in RoundIds(child.obj)}
                  /\ \A id \in DOMAIN flags :
                        /\ flags[id].round_id \in RoundIds(child.obj)
                        /\ id \in StoredIn(child.obj.rounds, flags[id].round_id,
                                           flags[id].owner, flags[id].service)
        /\ "CTF.flag_captures" \in DOMAIN cmemo =>
              LET captures == cmemo["CTF.flag_captures"]
              IN  /\ DOMAIN captures = CapturedIds(child.obj)
                  /\ \A id \in DOMAIN captures :
                        /\ captures[id].count = Cardinality(CaptureSites(child.obj, id))
                        /\ DOMAIN captures[id].by =
                               {x[1] : x \in CaptureSites(child.obj, id)}
                        /\ \A r \in DOMAIN captures[id].by :
                               Range(captures[id].by[r]) =
                                   {x[2] : x \in {y \in CaptureSites(child.obj, id) : y[1] = r}}

\* C5: slice(from, to) returns a new CTF with rounds[from:to] and
\* flag_states[from:to] (not estimated again); the indices the slice memoizes
\* are those of the sliced rounds, never the parent's; and a step that
\* creates a slice or fills its cache changes neither the parent's fields
\* nor the parent's memoized indices (and emits no warning).
C5_Slice ==
    /\ []C5_ChildIsSlice
    /\ [][(child' # child \/ cmemo' # cmemo) =>
             (ctf' = ctf /\ memo' = memo /\ warnings' = warnings)]_vars

\* A slice(1, 2) of a parent that has memoized flags and flag_captures, with
\* its own, different flags and flag_captures memoized, whose flag_states
\* differ from what the estimator gives for its rounds
C5_Witness ==
    /\ child.exists
    /\ child.args = <<<<1>>, <<2>>>>
    /\ {"CTF.flags", "CTF.flag_captures"} \subseteq DOMAIN memo
    /\ {"CTF.flags", "CTF.flag_captures"} \subseteq DOMAIN cmemo
    /\ cmemo["CTF.flags"] # memo["CTF.flags"]
    /\ cmemo["CTF.flag_captures"] # memo["CTF.flag_captures"]
    /\ LET again == EstimateFlagStates(child.obj.rounds, child.obj.teams,
                                       child.obj.config.flag_retention)
       IN  again.exc = NoExc /\ again.per_round # child.obj.flag_states

----------------------------------------------------------------------------
(* Claims about the Score algebra (checked under SpecAlg)                   *)

\* The value of category cat of a Score, 0 when the Score has no such key
CategoryOrZero(score, cat) ==
    IF cat \in DOMAIN score.categories THEN score.categories[cat].num ELSE Zero

\* C10: a + b and a - b are defined for any two Scores; combined is the
\* sum/difference of the operands' combined; the result's categories are
\* keyed by the union of the operands' category keys and each holds the
\* sum/difference of the operands' values, a missing one counting as 0.
C10_ScoreAlgebra ==
    phase \in {"added", "subtracted"} =>
        LET sign == IF phase = "added" THEN 1 ELSE -1
            keys == (DOMAIN input.a.categories) \cup (DOMAIN input.b.categories)
        IN  /\ raised = NoExc
            /\ result.returned
            /\ result.value.combined = RatOp(input.a.combined, input.b.combined, sign)
            /\ DOMAIN result.value.categories = keys
            /\ \A cat \in keys :
                  result.value.categories[cat] =
                      Float(RatOp(CategoryOrZero(input.a, cat),
                                  CategoryOrZero(input.b, cat), sign))

----------------------------------------------------------------------------
(* Claims about the scoreboards of evaluate (checked under SpecScore)       *)

RECURSIVE SumRats(_)
SumRats(seq) == IF seq = <<>> THEN Zero ELSE RatAdd(Head(seq), SumRats(Tail(seq)))

\* Team t stored flag id in some round of c
Owns(c, t, id) ==
    \E r \in RoundIds(c), s \in ServiceSet : id \in StoredIn(c.rounds, r, t, s)

\* How often flag id is captured in c
TimesCaptured(c, id) == Cardinality(CaptureSites(c, id))

\* What the body of ATKLABv1's loop computes for (round r, team) of c from
\* the capture counts of c: the attack, defense and SLA points of the round
V1Contribution(c, r, team, cat) ==
    LET team_data == c.rounds[r + 1][team]
        captured  == team_data.flags_captured
        stored    == StoredSeq(team_data)
        services  == SelectSeq(ServiceOrder,
                               LAMBDA sv : team_data.service_states[sv] \in {"OK", "RECOVERING"})
    IN  CASE cat = "ATK" ->
                SumRats([i \in 1..Len(captured) |->
                            IF Owns(c, team, captured[i]) THEN Zero
                            ELSE RatDiv(RatAdd(One, Rat(1, TimesCaptured(c, captured[i]))),
                                        Rat(2, 1))])
          [] cat = "DEF" ->
                RatSub(Zero,
                       SumRats([i \in 1..Len(stored) |->
                                   IF TimesCaptured(c, stored[i]) = 0 THEN Zero
                                   ELSE RatDiv(RatAdd(One, Rat(TimesCaptured(c, stored[i]),
                                                               Len(c.teams))),
                                               Rat(2, 1))]))
          [] cat = "SLA" ->
                SumRats([i \in 1..Len(services) |->
                            Rat(V1Present(c, r, team, services[i],
                                          team_data.service_states[services[i]]),
                                Min(r + 1, c.config.flag_retention))])

\* The prefix scoreboard: the contributions of rounds 0..k-1
PrefixScore(c, k, team, cat) ==
    SumRats([i \in 1..k |-> V1Contribution(c, i - 1, team, cat)])

\* A returned scoreboard is a defaultdict(Score.default): a team without an
\* entry has 0 in every category
BoardHas(board, team, cat) ==
    team \in DOMAIN board =>
        /\ cat \in DOMAIN board[team].categories
        /\ board[team].categories[cat].kind = "float"

BoardCategory(board, team, cat) ==
    IF team \in DOMAIN board THEN board[team].categories[cat].num ELSE Zero

\* The last call was ATKLABv1.evaluate on the given target, with nop_team
\* None or a team of the CTF
EvaluatedOn(on) ==
    /\ result.call.op = "ATKLABv1.evaluate"
    /\ result.call.on = on
    /\ result.call.nop_team # <<>> => result.call.nop_team[1] \in TeamSet(ctf)

\* C6: evaluate(ctf.slice(0, k)) returns a scoreboard that gives each team,
\* in every category, the sum of the contributions evaluate(ctf) accumulates
\* for rounds 0..k-1.
C6_SliceExtension ==
    (EvaluatedOn("slice") /\ result.call.args[1] = <<0>> /\ result.call.args[2] # <<>>) =>
        LET k == Min(result.call.args[2][1], Len(ctf.rounds))
        IN  /\ result.returned
            /\ \A team \in TeamSet(ctf), cat \in {"ATK", "DEF", "SLA"} :
                  /\ BoardHas(result.value, team, cat)
                  /\ BoardCategory(result.value, team, cat) = PrefixScore(ctf, k, team, cat)

\* c without the captures of the flags for which Drop(capturer, flag id) holds
WithoutCaptures(c, Drop(_, _)) ==
    [c EXCEPT !.rounds =
        [p \in DOMAIN c.rounds |->
            [t \in TeamSet(c) |->
                [c.rounds[p][t] EXCEPT !.flags_captured =
                    SelectSeq(@, LAMBDA id : ~Drop(t, id))]]]]

Captures(c, Which(_, _)) ==
    \E r \in RoundIds(c), t \in TeamSet(c) :
        \E id \in Range(c.rounds[r + 1][t].flags_captured) : Which(t, id)

\* C7: with nop_team = NOP, in a CTF where NOP captures a flag or a flag of
\* NOP's is captured, evaluate returns a scoreboard in which NOP's ATK and
\* DEF are 0 and every other team's ATK and DEF are what they are without
\* the captures of NOP's flags.
C7_NopExclusion ==
    (/\ EvaluatedOn("ctf")
     /\ result.call.nop_team = <<"NOP">>
     /\ Captures(ctf, LAMBDA t, id : t = "NOP" \/ Owns(ctf, "NOP", id))) =>
        /\ result.returned
        /\ \A cat \in {"ATK", "DEF"} :
              /\ BoardHas(result.value, "NOP", cat)
              /\ BoardCategory(result.value, "NOP", cat) = Zero
        /\ LET base == ATKLABv1Evaluate(
                            WithoutCaptures(ctf, LAMBDA t, id : Owns(ctf, "NOP", id)),
                            EmptyDict, result.call.nop_team)
           IN  /\ base.exc = NoExc
               /\ \A team \in TeamSet(ctf) \ {"NOP"}, cat \in {"ATK", "DEF"} :
                     /\ BoardHas(result.value, team, cat)
                     /\ BoardHas(base.board, team, cat)
                     /\ BoardCategory(result.value, team, cat) =
                            BoardCategory(base.board, team, cat)

\* C8: in a CTF where a team captures a flag it owns, evaluate returns a
\* scoreboard in which that team's ATK is what it is without the team's
\* captures of its own flags.
C8_SelfCaptureIgnored ==
    (EvaluatedOn("ctf") /\ Captures(ctf, LAMBDA t, id : Owns(ctf, t, id))) =>
        /\ result.returned
        /\ LET base == ATKLABv1Evaluate(
                            WithoutCaptures(ctf, LAMBDA t, id : Owns(ctf, t, id)),
                            EmptyDict, result.call.nop_team)
           IN  /\ base.exc = NoExc
               /\ \A team \in TeamSet(ctf) :
                     /\ BoardHas(result.value, team, "ATK")
                     /\ BoardHas(base.board, team, "ATK")
                     /\ BoardCategory(result.value, team, "ATK") =
                            BoardCategory(base.board, team, "ATK")

\* C9: evaluate returns a scoreboard in which the ATK of every team is >= 0.
C9_NonNegativeAttack ==
    (EvaluatedOn("ctf") /\ ctf.rounds # <<>>) =>
        /\ result.returned
        /\ \A team \in TeamSet(ctf) :
              /\ BoardHas(result.value, team, "ATK")
              /\ ~RatLess(BoardCategory(result.value, team, "ATK"), Zero)

----------------------------------------------------------------------------
(* Claims about Score.default (checked under SpecAlg)                       *)

\* C11: Score.default(attack, defense, sla) has exactly the categories ATK,
\* DEF and SLA, holding attack, defense and sla, and combined is their sum;
\* and a + Score.default() returns a Score equal to a in combined and in
\* every category.
C11_ScoreDefault ==
    /\ result.call.op = "Score.default" =>
          LET score == result.value
              args  == result.call.args
          IN  /\ DOMAIN score.categories = {"ATK", "DEF", "SLA"}
              /\ score.categories["ATK"] = Float(args[1])
              /\ score.categories["DEF"] = Float(args[2])
              /\ score.categories["SLA"] = Float(args[3])
              /\ score.combined = RatAdd(RatAdd(args[1], args[2]), args[3])
    /\ (phase = "added" /\ input.b = ScoreDefault(Zero, Zero, Zero)) =>
          /\ result.returned
          /\ result.value.combined = input.a.combined
          /\ result.value.categories = input.a.categories

----------------------------------------------------------------------------
(* Claims about the preconditions and parameters of the formulas (checked  *)
(* under SpecFormulas)                                                     *)

EvaluateOps ==
    {"ATKLABv1.evaluate", "ATKLABv2.evaluate", "SaarCTF2024.evaluate", "ECSC2025.evaluate"}

\* C12: for ATKLABv1, ATKLABv2, SaarCTF2024 and ECSC2025, an evaluate whose
\* nop_team is non-null and not a team of the CTF raises the precondition
\* error (KeyError), returns no scoreboard, not even a partial one, and
\* leaves the CTF and its memoized indices as they were, so that every later
\* evaluation starts from the state it would have started from without the
\* failed one.
C12_NopPrecondition ==
    [][(/\ result'.call.op \in EvaluateOps
        /\ result'.call.nop_team # <<>>
        /\ result'.call.nop_team[1] \notin TeamSet(ctf'))
       => (/\ raised' = "KeyError"
           /\ ~result'.returned
           /\ result'.value = EmptyDict
           /\ ctf' = ctf
           /\ memo' = memo)]_vars

\* A CTF without a team named NOP, whose indices an earlier evaluation has
\* memoized, was evaluated by SaarCTF2024 with the default nop_team
C12_Witness ==
    /\ phase = "ready"
    /\ result.call.op = "SaarCTF2024.evaluate"
    /\ result.call.nop_team = <<"NOP">>
    /\ "NOP" \notin TeamSet(ctf)
    /\ raised = "KeyError"
    /\ "CTF.flag_captures" \in DOMAIN memo

\* The call passes a jeopardy parameter its formula does not use: beta with
\* DHM, alpha or beta with ECSC2025
UnusedParameter(params) ==
    \/ params.jeopardy = "DHM" /\ params.beta # <<>>
    \/ params.jeopardy = "ECSC2025" /\ (params.alpha # <<>> \/ params.beta # <<>>)

\* C13: for every CTF, also one without captures or stored flags,
\* ATKLABv2.evaluate with a jeopardy parameter that the selected formula
\* does not use fails with an error and returns no scoreboard.
C13_ParameterError ==
    (/\ phase = "ready"
     /\ result.call.op = "ATKLABv2.evaluate"
     /\ result.call.nop_team # <<>> => result.call.nop_team[1] \in TeamSet(ctf)
     /\ UnusedParameter(result.call.params))
    => (raised # NoExc /\ ~result.returned)

\* Scenario S3: three teams, flag_validity = 1 and a single round in which
\* the second and the third team each capture the flag of team A; the third
\* team of the inputs is the one named NOP, an ordinary team when nop_team
\* is None
ScenarioS3 ==
    /\ phase = "ready"
    /\ ctf.teams = <<"A", "B", "NOP">>
    /\ ctf.config.flag_validity = 1
    /\ Len(ctf.rounds) = 1
    /\ ctf.rounds[1]["A"].flags_captured = <<>>
    /\ ctf.rounds[1]["B"].flags_captured = <<FlagIdOf(0, 1, 3)>>
    /\ ctf.rounds[1]["NOP"].flags_captured = <<FlagIdOf(0, 1, 3)>>

\* C15: in scenario S3, ATKLABv2 with jeopardy = ECSC2025 and base = 10
\* returns a scoreboard in which the ATK of the two attackers is the same,
\* namely floor(10 * (30/31)^3) = 9.
C15_ScenarioS3 ==
    (/\ ScenarioS3
     /\ result.call.op = "ATKLABv2.evaluate"
     /\ result.call.nop_team = <<>>
     /\ result.call.params.jeopardy = "ECSC2025"
     /\ result.call.params.base = 10)
    => /\ result.returned
       /\ \A team \in {"B", "NOP"} :
             /\ BoardHas(result.value, team, "ATK")
             /\ BoardCategory(result.value, team, "ATK")
                    = Rat((10 * 30 * 30 * 30) \div (31 * 31 * 31), 1)

----------------------------------------------------------------------------
(* Claims about scenarios of ATKLABv1 (checked under SpecScore)            *)

\* Scenario S2: teams A and B, two rounds, flag_retention = 2, and the only
\* capture is B's capture in round 1 of the flag A stored in round 0
ScenarioS2 ==
    /\ phase = "ready"
    /\ ctf.teams = <<"A", "B">>
    /\ ctf.config.flag_retention = 2
    /\ Len(ctf.rounds) = 2
    /\ ctf.rounds[1]["A"].flags_captured = <<>>
    /\ ctf.rounds[1]["B"].flags_captured = <<>>
    /\ ctf.rounds[2]["A"].flags_captured = <<>>
    /\ ctf.rounds[2]["B"].flags_captured = <<FlagIdOf(0, 1, 2)>>

\* C14: ATKLABv1 with nop_team unset returns a scoreboard in which every
\* capture of another team's flag adds (1 + 1/n)/2 to the capturer's ATK, n
\* being the flag's capture count, and every stored flag with c > 0
\* captures subtracts (1 + c/|teams|)/2 from its owner's DEF; in scenario S2
\* ATK_B = 1, DEF_A = -3/4, ATK_A = 0 and DEF_B = 0.
C14_ScenarioS2 ==
    (EvaluatedOn("ctf") /\ result.call.nop_team = <<>>) =>
        /\ result.returned
        /\ \A team \in TeamSet(ctf), cat \in {"ATK", "DEF"} :
              /\ BoardHas(result.value, team, cat)
              /\ BoardCategory(result.value, team, cat)
                     = PrefixScore(ctf, Len(ctf.rounds), team, cat)
        /\ ScenarioS2 =>
              /\ BoardCategory(result.value, "B", "ATK") = Rat(1, 1)
              /\ BoardCategory(result.value, "A", "DEF") = Rat(-3, 4)
              /\ BoardCategory(result.value, "A", "ATK") = Zero
              /\ BoardCategory(result.value, "B", "DEF") = Zero

----------------------------------------------------------------------------
(* Claims about SaarCTF2024._rank (checked under SpecRank)                 *)

\* The dense rank of team t: one more than the number of distinct combined
\* scores above its own
DenseRank(scoreboard, teams, t) ==
    1 + Cardinality({scoreboard[u].combined :
                        u \in {u \in teams : RatLess(scoreboard[t].combined,
                                                      scoreboard[u].combined)}})

\* C16: _rank gives teams with equal combined the same rank, gives a team
\* with a positive combined the rank of the next higher distinct score plus
\* one (the dense rank: 10, 10, 5 give 1, 1, 2), and gives all teams with
\* combined <= 0 one shared rank.
C16_DenseRanking ==
    phase = "ranked" =>
        LET board == input.scoreboard
            teams == Range(input.teams)
            rank  == result.value
        IN  /\ DOMAIN rank = teams
            /\ \A t \in teams, u \in teams :
                  board[t].combined = board[u].combined => rank[t] = rank[u]
            /\ \A t \in teams :
                  RatLess(Zero, board[t].combined) => rank[t] = DenseRank(board, teams, t)
            /\ \A t \in teams, u \in teams :
                  (~RatLess(Zero, board[t].combined) /\ ~RatLess(Zero, board[u].combined))
                      => rank[t] = rank[u]

----------------------------------------------------------------------------
(* Claims about ECSC2024 (checked under SpecECSC2024)                      *)

\* scores[round_id] of the last call ECSC2024(base=base).evaluate, run on c;
\* the seed for round_id = -1
Snapshot(c, round_id) ==
    ECSC2024Scores(c, EmptyDict, result.call.params.base).scores[round_id]

\* score() = max(0, base + attack - defense), in hundredths
ClaimedScore(s) == Max(0, s.base + s.attack - s.defense)

\* The last call was ECSC2024.evaluate on the given target
ECSC2024EvaluatedOn(on) ==
    /\ phase = "ready"
    /\ result.call.op = "ECSC2024.evaluate"
    /\ result.call.on = on

\* C17 as stated: the final scoreboard has one entry per team and a team's
\* combined is the sum over the services of
\* score() * up_rounds / max(rounds, 1) on the last round's state, so a
\* service whose rounds counter is 0 contributes 0.
C17_FinalScoreboard_AsStated ==
    (ECSC2024EvaluatedOn("ctf") /\ result.returned) =>
        LET last == Snapshot(ctf, Len(ctf.rounds) - 1)
        IN  /\ DOMAIN result.value = TeamSet(ctf)
            /\ \A team \in TeamSet(ctf) :
                  result.value[team].combined =
                      SumTotals([i \in 1..Len(ServiceOrder) |->
                                    LET s == last[team][ServiceOrder[i]]
                                    IN  Rat(ClaimedScore(s) * s.up_rounds,
                                            100 * Max(s.rounds, 1))])

\* C17, amended: the final scoreboard has one entry per team and a team's
\* combined is the sum over the services of score() * up_rounds / rounds on
\* the last round's state, where a service whose rounds counter is 0
\* (never checked, or a CTF with zero rounds) contributes base.
C17_FinalScoreboard ==
    (ECSC2024EvaluatedOn("ctf") /\ result.returned) =>
        LET last == Snapshot(ctf, Len(ctf.rounds) - 1)
        IN  /\ DOMAIN result.value = TeamSet(ctf)
            /\ \A team \in TeamSet(ctf) :
                  result.value[team].combined =
                      SumTotals([i \in 1..Len(ServiceOrder) |->
                                    LET s == last[team][ServiceOrder[i]]
                                    IN  IF s.rounds = 0 THEN Rat(s.base, 100)
                                        ELSE Rat(ClaimedScore(s) * s.up_rounds,
                                                 100 * s.rounds)])

\* Team A reported ERROR in every round, so its rounds counter is 0, it lost
\* a flag, and the scoreboard was returned
C17_Witness ==
    /\ ECSC2024EvaluatedOn("ctf")
    /\ result.returned
    /\ Len(ctf.rounds) >= 2
    /\ \A r \in RoundIds(ctf) : StateOf(ctf, r, "A", "web") = "ERROR"
    /\ result.value["A"].categories["defense"].num # Zero

\* No team captures, in a round before k, a flag placed in that same round
NoSameRoundCapture(c, k) ==
    \A r \in 0..(k - 1), t \in TeamSet(c) :
        Range(c.rounds[r + 1][t].flags_captured) \cap StoredInRound(c, r) = {}

\* What C18 states of an evaluation of ctf.slice(0, k): it returns a
\* scoreboard with one entry per team, and each team's combined is the total
\* of the snapshot of round k-1 of the full evaluation
PrefixConsistent(k) ==
    /\ result.returned
    /\ DOMAIN result.value = TeamSet(ctf)
    /\ \A team \in TeamSet(ctf) :
          result.value[team].combined =
              SumTotals([i \in 1..Len(ServiceOrder) |->
                            ServiceScoreTotal(Snapshot(ctf, k - 1)[team][ServiceOrder[i]])])

----------------------------------------------------------------------------
(* Claims about the memoized indices and the SLA of ATKLABv1               *)

\* C19: after any sequence of evaluations of any formulas on a CTF, every
\* memoized index of the CTF (flagstores, flags, flag_captures) is what its
\* first computation gave: same keys, same counts, same capturer lists.
\* Checked under SpecFormulas.
C19_IndicesReadOnly ==
    phase = "ready" =>
        \A name \in DOMAIN memo : memo[name] = ComputeIndex(name, ctf)

\* The RECOVERING rounds counted by the walk backwards from round r-2 down
\* to max(0, r - flag_retention): the rounds q from which every round up to
\* r-2 is RECOVERING
RecoveringStreak(c, r, team, s) ==
    Cardinality({q \in Max(0, r - c.config.flag_retention)..(r - 2) :
                    \A q2 \in q..(r - 2) : StateOf(c, q2, team, s) = "RECOVERING"})

\* present of (round r, team, service s)
SlaPresent(c, r, team, s) ==
    LET max_flags == Min(r + 1, c.config.flag_retention)
    IN  CASE StateOf(c, r, team, s) = "OK" -> max_flags
          [] StateOf(c, r, team, s) = "RECOVERING" ->
                Min(max_flags, 1 + RecoveringStreak(c, r, team, s))
          [] OTHER -> 0

\* C20: ATKLABv1 returns a scoreboard in which the SLA of every team is the
\* sum over the rounds r and the services of present / max_flags, with
\* max_flags = min(r+1, flag_retention) and present as defined by the
\* state of the round and the RECOVERING streak before it, and every such
\* term lies in [0, 1]. Checked under SpecScore.
C20_V1Sla ==
    EvaluatedOn("ctf") =>
        /\ result.returned
        /\ \A r \in RoundIds(ctf), team \in TeamSet(ctf), s \in ServiceSet :
              /\ 0 <= SlaPresent(ctf, r, team, s)
              /\ SlaPresent(ctf, r, team, s) <= Min(r + 1, ctf.config.flag_retention)
        /\ \A team \in TeamSet(ctf) :
              /\ BoardHas(result.value, team, "SLA")
              /\ BoardCategory(result.value, team, "SLA") =
                    SumRats([i \in 1..Len(ctf.rounds) |->
                                SumRats([j \in 1..Len(ServiceOrder) |->
                                            Rat(SlaPresent(ctf, i - 1, team, ServiceOrder[j]),
                                                Min(i, ctf.config.flag_retention))])])

----------------------------------------------------------------------------
(* Claims about the defense attribution of ATKLABv2 (checked under         *)
(* SpecFormulas), for the jeopardy formula ECSC2025, whose values are      *)
(* rational, and the default attackers = Scaled, defense_compensation      *)

RatMul(x, y) == Rat(x[1] * y[1], x[2] * y[2])

\* The coordinates (r, s, f) of c
Coordinates(c) ==
    {x \in RoundIds(c) \X ServiceSet \X {0} : x[3] \in Range(FlagstoresOf[x[2]])}

\* Team d stored a flag at the coordinate
HasFlagAt(c, coord, d) ==
    LET stored == c.rounds[coord[1] + 1][d].flags_stored
    IN  coord[2] \in DOMAIN stored /\ coord[3] \in DOMAIN stored[coord[2]]

FlagAt(c, coord, d) == c.rounds[coord[1] + 1][d].flags_stored[coord[2]][coord[3]]

\* attacked_teams[coord][a]: the teams whose flag of the coordinate team a
\* captured in some round, NOP on neither side
VictimsOf(c, nop_team, coord, a) ==
    {d \in TeamSet(c) :
        /\ d # a
        /\ nop_team # <<d>> /\ nop_team # <<a>>
        /\ HasFlagAt(c, coord, d)
        /\ CaptureSites(c, FlagAt(c, coord, d)) \cap (RoundIds(c) \X {a} \X (1..MaxRounds)) # {}}

\* The attackers of the coordinate under AttackerMode.Scaled
ScaledAttackers(c, nop_team, coord) ==
    {a \in TeamSet(c) : VictimsOf(c, nop_team, coord, a) # {}}

\* The ECSC2025 jeopardy value max_score * (30 / (29 + max(solves, 1)))^3
JeopardyECSC2025(max_score, solves) ==
    Rat(max_score * 30 * 30 * 30,
        (29 + Max(solves, 1)) * (29 + Max(solves, 1)) * (29 + Max(solves, 1)))

\* The value of one check round for attacker a at the coordinate
CheckValue(c, nop_team, base, coord, a, check) ==
    LET max_victims   == Max(Cardinality(V2ActiveTeams(c, check, nop_team)) - 1, 1)
        not_exploited == max_victims - Cardinality(VictimsOf(c, nop_team, coord, a))
    IN  RatDiv(RatMul(JeopardyECSC2025(base, not_exploited),
                      Rat(max_victims, Cardinality(ScaledAttackers(c, nop_team, coord)))),
               Rat(c.config.flag_validity, 1))

\* The flag of d at the coordinate was available in the check round
Available(c, coord, d, check) ==
    /\ StateOf(c, check, d, coord[2]) \in {"OK", "RECOVERING"}
    /\ FlagAt(c, coord, d) \in DOMAIN c.flag_states[check + 1]
    /\ c.flag_states[check + 1][FlagAt(c, coord, d)] = "OK"

\* max_defense (all check rounds) and defense (the available ones)
MaxDefense(c, nop_team, base, coord, a) ==
    LET hi == Min(Len(c.rounds), coord[1] + c.config.flag_validity)
    IN  SumRats([i \in 1..(hi - coord[1]) |->
                    CheckValue(c, nop_team, base, coord, a, coord[1] + i - 1)])

Defense(c, nop_team, base, coord, a, d) ==
    LET hi == Min(Len(c.rounds), coord[1] + c.config.flag_validity)
    IN  SumRats([i \in 1..(hi - coord[1]) |->
                    IF Available(c, coord, d, coord[1] + i - 1)
                    THEN CheckValue(c, nop_team, base, coord, a, coord[1] + i - 1)
                    ELSE Zero])

\* The <<coordinate, attacker>> pairs for which team d is credited: d is
\* not NOP, stored a flag at the coordinate and is not a victim of a
Defended(c, nop_team, d) ==
    {x \in Coordinates(c) \X TeamSet(c) :
        /\ nop_team # <<d>>
        /\ x[2] \in ScaledAttackers(c, nop_team, x[1])
        /\ HasFlagAt(c, x[1], d)
        /\ d \notin VictimsOf(c, nop_team, x[1], x[2])}

RECURSIVE SumOverSet(_, _)
SumOverSet(S, f) ==
    IF S = {} THEN Zero
    ELSE LET x == CHOOSE x \in S : TRUE
         IN  RatAdd(f[x], SumOverSet(S \ {x}, f))

\* The call C21 is about: ATKLABv2 with jeopardy ECSC2025, nop_team None or
\* a team of the CTF, on a CTF with a coordinate at which some team is
\* credited with respect to another team
DefenseCredited ==
    /\ phase = "ready"
    /\ result.call.op = "ATKLABv2.evaluate"
    /\ result.call.params.jeopardy = "ECSC2025"
    /\ result.call.nop_team # <<>> => result.call.nop_team[1] \in TeamSet(ctf)
    /\ \E d \in TeamSet(ctf) :
          \E x \in Defended(ctf, result.call.nop_team, d) : x[2] # d

\* C21: ATKLABv2 returns a scoreboard in which the DEF of every team d is
\* the sum, over the coordinates (r, s, f) at which d stored a flag and the
\* selected attackers a # d that did not capture it, of the defense accrued
\* over the check rounds in which the flag was available, with
\* 0 <= defense <= max_defense; nothing is credited to DEF with respect to
\* an attacker that captured the flag or for a = d.
C21_DefenseAttribution ==
    DefenseCredited =>
        LET nop_team == result.call.nop_team
            base     == result.call.params.base
        IN  /\ result.returned
            /\ \A d \in TeamSet(ctf) :
                  LET others == {x \in Defended(ctf, nop_team, d) : x[2] # d}
                  IN  /\ \A x \in others :
                            /\ ~RatLess(Defense(ctf, nop_team, base, x[1], x[2], d), Zero)
                            /\ ~RatLess(MaxDefense(ctf, nop_team, base, x[1], x[2]),
                                        Defense(ctf, nop_team, base, x[1], x[2], d))
                      /\ BoardHas(result.value, d, "DEF")
                      /\ BoardCategory(result.value, d, "DEF") =
                            SumOverSet(others,
                                       [x \in others |->
                                           Defense(ctf, nop_team, base, x[1], x[2], d)])

----------------------------------------------------------------------------
(* Claims about the attack and defense points of SaarCTF2024 (checked      *)
(* under SpecFormulas)                                                     *)

\* The last call was SaarCTF2024.evaluate with nop_team None or a team of
\* the CTF
SaarEvaluated ==
    /\ phase = "ready"
    /\ result.call.op = "SaarCTF2024.evaluate"
    /\ result.call.nop_team # <<>> => result.call.nop_team[1] \in TeamSet(ctf)

\* Team first captures flag id in round 0 and nothing else, team second
\* captures it in round 1 and nothing else, of a CTF with two rounds; the
\* flag is a counted one: its owner is neither NOP nor one of the two
CapturedInTurn(c, nop_team, id, first, second) ==
    /\ Len(c.rounds) = 2
    /\ first # second
    /\ c.rounds[1][first].flags_captured = <<id>>
    /\ c.rounds[2][first].flags_captured = <<>>
    /\ c.rounds[1][second].flags_captured = <<>>
    /\ c.rounds[2][second].flags_captured = <<id>>
    /\ \E owner \in TeamSet(c) \ {first, second} :
          /\ Owns(c, owner, id)
          /\ nop_team # <<owner>>

\* C22: when a flag captured in round r-1 is captured again in round r, the
\* retroactive delta current_flag_value - previous_flag_value is applied
\* once, to the teams that captured the flag in round r-1 and to no others.
\* The team that captured the flag in round r-1 was credited the previous
\* flag value then, so in the returned scoreboard its ATK for the flag is
\* the current flag value, the ATK of the team that captures the flag in
\* round r.
C22_RetroactiveUpdate ==
    SaarEvaluated =>
        \A id \in CapturedIds(ctf), first \in TeamSet(ctf), second \in TeamSet(ctf) :
            CapturedInTurn(ctf, result.call.nop_team, id, first, second) =>
                /\ result.returned
                /\ BoardHas(result.value, first, "ATK")
                /\ BoardHas(result.value, second, "ATK")
                /\ BoardCategory(result.value, first, "ATK")
                      = BoardCategory(result.value, second, "ATK")
                /\ \A other \in TeamSet(ctf) \ {first, second} :
                      BoardCategory(result.value, other, "ATK") = Zero

\* Team `team` lists flag id twice in its flags_captured of round 0, the
\* only round, and the flag is a counted one of another team
CapturedTwice(c, nop_team, id, team) ==
    /\ Len(c.rounds) = 1
    /\ c.rounds[1][team].flags_captured = <<id, id>>
    /\ \E owner \in TeamSet(c) \ {team} :
          /\ Owns(c, owner, id)
          /\ nop_team # <<owner>>

\* C23: a FlagId listed several times in one team-round counts once per
\* occurrence in flag_captures (count and by[round]), and SaarCTF2024
\* credits the capturing team's ATK for it once: the ATK is one flag value
\* 1 + (1/captures)^0.5 + (1/victim_rank)^0.5, which lies in (1, 3].
C23_DuplicateCaptures ==
    /\ (phase = "ready" /\ "CTF.flag_captures" \in DOMAIN memo) =>
          \A id \in DOMAIN memo["CTF.flag_captures"] :
              /\ memo["CTF.flag_captures"][id].count = TimesCaptured(ctf, id)
              /\ \A r \in DOMAIN memo["CTF.flag_captures"][id].by :
                    Len(memo["CTF.flag_captures"][id].by[r])
                        = Cardinality({x \in CaptureSites(ctf, id) : x[1] = r})
    /\ SaarEvaluated =>
          \A id \in CapturedIds(ctf), team \in TeamSet(ctf) :
              CapturedTwice(ctf, result.call.nop_team, id, team) =>
                  /\ result.returned
                  /\ BoardHas(result.value, team, "ATK")
                  /\ RatLess(One, BoardCategory(result.value, team, "ATK"))
                  /\ ~RatLess(Rat(3, 1), BoardCategory(result.value, team, "ATK"))

\* Some team other than the owner captures a flag of `owner`, which is not
\* NOP: the flag enters captured_flags of the round of the capture
CountedCaptureOf(c, nop_team, owner) ==
    /\ nop_team # <<owner>>
    /\ Captures(c, LAMBDA t, id : t # owner /\ Owns(c, owner, id))

\* C24: for every flag captured in a round, the value
\* (previous_damage - current_damage) / flag_rate * def_factor added to the
\* owner's DEF is <= 0 and the assertion guarding it never fails: evaluate
\* returns a scoreboard in which the DEF of every owner of a captured flag
\* is a number <= 0.
C24_DefenseDelta ==
    SaarEvaluated =>
        \A owner \in TeamSet(ctf) :
            CountedCaptureOf(ctf, result.call.nop_team, owner) =>
                /\ raised # "AssertionError"
                /\ result.returned
                /\ BoardHas(result.value, owner, "DEF")
                /\ ~RatLess(Zero, BoardCategory(result.value, owner, "DEF"))

----------------------------------------------------------------------------
(* Claims about the counters and the clamp of ECSC2024 (checked under      *)
(* SpecECSC2024)                                                           *)

\* The team stored no flag for the service in the rounds
\* max(0, r - flag_validity + 1) .. r-1, flag_validity being the formula's
NoFlagToGet(c, r, team, s) ==
    \A p \in Max(0, r - ECSC2024FlagValidity + 1)..(r - 1) :
        StoredIn(c.rounds, p, team, s) = {}

\* The rounds that count as up, and as checked, for (team, service)
CountsUp(c, r, team, s) ==
    \/ StateOf(c, r, team, s) = "OK"
    \/ (StateOf(c, r, team, s) = "RECOVERING" /\ NoFlagToGet(c, r, team, s))

CountsChecked(c, r, team, s) == StateOf(c, r, team, s) # "ERROR"

AllError(c, r, s) == \A team \in TeamSet(c) : StateOf(c, r, team, s) = "ERROR"

Unclamped(c, r) ==
    LET all == ECSC2024Scores(c, EmptyDict, result.call.params.base).scores
    IN  ECSC2024Updates([exc |-> NoExc, cache |-> EmptyDict,
                         scores |-> [x \in {y \in DOMAIN all : y < r} |-> all[x]]],
                        c, r, result.call.params.base).new

\* C26: after every round r and for every (team, service) the recorded
\* state has base + attack - defense >= 0; when the sum was negative at the
\* end of the round, defense was adjusted by exactly that sum, so that the
\* recorded sum is 0, and attack and base are as they were; a sum that was
\* not negative is recorded as it was.
C26_NegativityClamp ==
    (ECSC2024EvaluatedOn("ctf") /\ result.returned) =>
        \A r \in RoundIds(ctf), team \in TeamSet(ctf), s \in ServiceSet :
            LET pre  == Unclamped(ctf, r)[team][s]
                post == Snapshot(ctf, r)[team][s]
            IN  /\ ServiceScoreSum(post) >= 0
                /\ post.attack = pre.attack
                /\ post.base = pre.base
                /\ ServiceScoreSum(pre) < 0 =>
                      /\ post.defense = pre.defense + ServiceScoreSum(pre)
                      /\ ServiceScoreSum(post) = 0
                /\ ServiceScoreSum(pre) >= 0 => post = pre

----------------------------------------------------------------------------
(* Claims about ECSC2025 as a special case of ATKLABv2 (checked under      *)
(* SpecFormulas)                                                           *)

\* ECSC2025._jeopardy: int(base * (30 / (29 + max(solves, 1))) ** 3)
JeopardyFloored(max_score, solves) ==
    (max_score * 30 * 30 * 30)
        \div ((29 + Max(solves, 1)) * (29 + Max(solves, 1)) * (29 + Max(solves, 1)))

\* CheckValue with the floored jeopardy value
CheckValueFloored(c, nop_team, base, coord, a, check) ==
    LET max_victims   == Max(Cardinality(V2ActiveTeams(c, check, nop_team)) - 1, 1)
        not_exploited == max_victims - Cardinality(VictimsOf(c, nop_team, coord, a))
    IN  RatDiv(RatMul(Rat(JeopardyFloored(base, not_exploited), 1),
                      Rat(max_victims, Cardinality(ScaledAttackers(c, nop_team, coord)))),
               Rat(c.config.flag_validity, 1))

\* Defense with the floored jeopardy value
DefenseFloored(c, nop_team, base, coord, a, d) ==
    LET hi == Min(Len(c.rounds), coord[1] + c.config.flag_validity)
    IN  SumRats([i \in 1..(hi - coord[1]) |->
                    IF Available(c, coord, d, coord[1] + i - 1)
                    THEN CheckValueFloored(c, nop_team, base, coord, a, coord[1] + i - 1)
                    ELSE Zero])

\* The SLA ATKLABv2 computes for team d over all rounds (atklabv2.py 186-210)
SlaOfATKLABv2(c, d, base) ==
    SumRats([i \in 1..Len(c.rounds) |->
                V2Sla([exc |-> NoExc, sla |-> Zero], c, i - 1, d,
                      SelectSeq(ServiceOrder,
                                LAMBDA sv : sv \in DOMAIN c.rounds[i][d].service_states),
                      base).sla])

\* The occurrences, in the flags_captured of d, of flags of other teams,
\* NOP on neither side: <<flag id, <<round, team, position>>>>
CountedCaptures(c, nop_team, d) ==
    {x \in (DOMAIN Flags(c)) \X (RoundIds(c) \X {d} \X (1..MaxRounds)) :
        /\ x[2] \in CaptureSites(c, x[1])
        /\ Flags(c)[x[1]].owner # d
        /\ nop_team # <<d>> /\ nop_team # <<Flags(c)[x[1]].owner>>}

\* The last call was ECSC2025.evaluate with nop_team None or a team of the
\* CTF
ECSC2025Evaluated ==
    /\ phase = "ready"
    /\ result.call.op = "ECSC2025.evaluate"
    /\ result.call.nop_team # <<>> => result.call.nop_team[1] \in TeamSet(ctf)

\* C27: ECSC2025 returns a scoreboard in which every team has the SLA that
\* ATKLABv2 computes with the same base and nop_team; DEF is credited for
\* the (coordinate, attacker, defender) triples with attacker # defender of
\* ATKLABv2 with attackers = Scaled, with the jeopardy values floored to
\* integers; and ATK is the floored jeopardy value of every counted capture
\* plus, for attacker = defender, the accrued defense.
C27_ECSC2025Specialised ==
    ECSC2025Evaluated =>
        LET nop_team == result.call.nop_team
            base     == 10
        IN  /\ result.returned
            /\ \A d \in TeamSet(ctf) :
                  LET credited == Defended(ctf, nop_team, d)
                      others   == {x \in credited : x[2] # d}
                      self     == {x \in credited : x[2] = d}
                      captures == CountedCaptures(ctf, nop_team, d)
                      Accrued(S) ==
                          SumOverSet(S, [x \in S |->
                                            DefenseFloored(ctf, nop_team, base,
                                                           x[1], x[2], d)])
                  IN  /\ BoardHas(result.value, d, "SLA")
                      /\ BoardHas(result.value, d, "DEF")
                      /\ BoardHas(result.value, d, "ATK")
                      /\ BoardCategory(result.value, d, "SLA") =
                            SlaOfATKLABv2(ctf, d, base)
                      /\ BoardCategory(result.value, d, "DEF") = Accrued(others)
                      /\ BoardCategory(result.value, d, "ATK") =
                            RatAdd(SumOverSet(captures,
                                              [x \in captures |->
                                                  Rat(JeopardyFloored(
                                                          base,
                                                          FlagCaptures(ctf)[x[1]].count),
                                                      1)]),
                                   Accrued(self))

----------------------------------------------------------------------------
(* Claims about the trigger of the flag-state estimation (checked under    *)
(* SpecTrigger, in which CTF.slice is the only reader of flag_states)      *)

\* The CTF was constructed from an input without flag_states
WithoutFlagStates == "flag_states" \notin DOMAIN input

\* C28 as stated: a CTF constructed without flag_states whose flag_states
\* have not been read has triggered no estimation and no warning; a CTF
\* constructed with flag_states never triggers it; the estimation runs at
\* most once.
C28_EstimatorTrigger_AsStated ==
    /\ (phase = "ready" /\ WithoutFlagStates /\ ~child.exists) => warnings = 0
    /\ ~WithoutFlagStates => warnings = 0
    /\ warnings <= 1

\* C28, amended: the estimation and its warning happen in the step that
\* constructs a CTF without flag_states, also when the estimation raises,
\* and in no other step: no read of flag_states, no slice and no evaluate
\* triggers it; a CTF constructed with flag_states never triggers it; the
\* estimation runs at most once.
C28_EstimatorTrigger ==
    [][/\ warnings' = IF phase = "decoded" /\ WithoutFlagStates
                      THEN warnings + 1
                      ELSE warnings
       /\ ~WithoutFlagStates => warnings' = 0
       /\ warnings' <= 1]_vars

\* A CTF constructed without flag_states, evaluated with ATKLABv1 and never
\* sliced, has warned once
C28_Witness ==
    /\ phase = "ready"
    /\ WithoutFlagStates
    /\ ~child.exists
    /\ result.call.op = "ATKLABv1.evaluate"
    /\ warnings = 1

----------------------------------------------------------------------------
(* Claims about the data-model invariants of a slice (checked under        *)
(* SpecSlice)                                                              *)

\* The FlagIds of the flag_states of c
StateIds(c) == UNION {DOMAIN c.flag_states[i] : i \in 1..Len(c.flag_states)}

\* Data-model invariant 1: every FlagId of a flags_captured or of
\* flag_states is a key of flags
FlagIdsKnown(c) == (CapturedIds(c) \cup StateIds(c)) \subseteq DOMAIN Flags(c)

\* C29: when the CTF satisfies invariant 1, the CTF returned by
\* slice(from, to), from <= to, satisfies it with its own flags index, and
\* evaluating a formula on the slice (ECSC2024, the formula that looks up
\* every captured flag and returns scoreboards) raises no KeyError.
C29_SlicePreservesFlagIds ==
    (phase = "ready" /\ child.exists /\ FlagIdsKnown(ctf)) =>
        /\ FlagIdsKnown(child.obj)
        /\ ECSC2024Evaluate(child.obj, cmemo, ECSC2024Base).exc # "KeyError"

----------------------------------------------------------------------------
(* Claims about the captures of ECSC2024 (checked under SpecECSC2024)      *)

\* scores[round_id] of ECSC2024(base=base).evaluate(ctf.slice(0, k)), with
\* the base of the last call
PrefixSnapshot(c, k, round_id) ==
    ECSC2024Scores(SliceFields(c, <<0>>, <<k>>), EmptyDict,
                   result.call.params.base).scores[round_id]

\* The exception of the last call ECSC2024(base=base).evaluate, run on c
Raised(c) == ECSC2024Evaluate(c, EmptyDict, result.call.params.base).exc

\* C30: when some team captures in some round a flag placed in that round,
\* ECSC2024.evaluate fails with AssertionError and returns no scoreboard.
\* Otherwise it returns, and for every team that captures one flag in round
\* r, attack grows in round r by the delta computed from the score() of
\* the capturer and of the owner in the snapshot of the flag's placement
\* round (the seed for a flag placed in round 0); the snapshot of a round is
\* what the evaluation of the rounds up to it gave, whatever the later
\* rounds are.
C30_SameRoundCaptureAborts ==
    ECSC2024EvaluatedOn("ctf") =>
        IF ~NoSameRoundCapture(ctf, Len(ctf.rounds))
        THEN /\ ~result.returned
             /\ Raised(ctf) = "AssertionError"
        ELSE /\ result.returned
             /\ \A r \in RoundIds(ctf), team \in TeamSet(ctf) :
                   LET captured == ctf.rounds[r + 1][team].flags_captured
                   IN  Len(captured) = 1 =>
                         LET flag    == Flags(ctf)[captured[1]]
                             related == IF flag.round_id = 0 THEN -1 ELSE flag.round_id
                             before  == Snapshot(ctf, related)
                         IN  Snapshot(ctf, r)[team][flag.service].attack =
                                 Snapshot(ctf, r - 1)[team][flag.service].attack
                                     + Delta(ClaimedScore(before[team][flag.service]),
                                             ClaimedScore(before[flag.owner][flag.service]))
             /\ \A k \in 1..Len(ctf.rounds) :
                   \A r \in -1..(k - 1) :
                       PrefixSnapshot(ctf, k, r) = Snapshot(ctf, r)

\* Team B captured a flag in the round after its placement and, in a later
\* round, a flag placed in that same round: the evaluation raised
\* AssertionError
C30_Witness ==
    /\ ECSC2024EvaluatedOn("ctf")
    /\ Len(ctf.rounds) = 3
    /\ ctf.rounds[2]["B"].flags_captured = <<FlagIdOf(0, 1, 2)>>
    /\ ctf.rounds[3]["B"].flags_captured = <<FlagIdOf(2, 1, 2)>>
    /\ ~result.returned
    /\ Raised(ctf) = "AssertionError"

============================================================================
